---- MODULE Spec2Model ----
(***************************************************************************)
(* A model of the ScholarVault migration script (master_migration.py):     *)
(*   - the adaptive PDF chunker dynamic_chunk_and_ocr_pdf, in the two      *)
(*     variants the repository holds (migration/ and backend/scripts/);    *)
(*   - the per-file pipeline process_file and the batch coordinator        *)
(*     migrate_with_mode of migration/master_migration.py;                 *)
(*   - its utilities retry_loop and clean_ocr_text.                        *)
(* Sizes are counted in MiB: SYNC_LIMIT = 40 stands for 40 * 1024 * 1024.  *)
(***************************************************************************)
EXTENDS Integers, Sequences, FiniteSets, TLC

\* ------------------------------------------------------------------ bounds
MaxPages == 4
MaxStartChunk == 4
MaxFiles == 3
MaxRerunFiles == 2
MaxRuns == 2
MaxFaults == 1
MaxRetryArg == 3
MaxPieces == 5

\* ------------------------------------------------------- program constants
SYNC_LIMIT == 40
DEFAULT_CHUNK_PAGES == 5
CHUNK_MIN_PAGES == 1
MAX_RETRIES == 3
MAX_WORKERS == 2
\* 0.3: confidences are counted in hundredths.
OCR_MIN_CONFIDENCE == 30
OCR_TEXT_MIN_LENGTH == 10

\* Serialized size (MiB) a single page may have: under, at and over the limit.
PageSizes == {20, 40, 41}

VARIABLES
  \* ---- dynamic_chunk_and_ocr_pdf
  ck_variant,         \* "migration" | "backend": which file's chunker runs
  ck_pc,              \* "start" | "loop" | "done" | "unreadable" | "raised"
  total_pages,        \* len(pdf_reader.pages)
  start_chunk_pages,  \* the argument start_chunk_pages
  page_size,          \* page_size[p + 1]: serialized size of page p
  page_idx,
  chunk_pages,
  gathered_text,      \* the ranges whose text was appended, in order
  plan,               \* history: every range the loop advanced past
  shrinks,            \* history: how many times the window was halved
  shrinks_here,       \* history: halvings since page_idx last changed
  ocr_raised,         \* history: the ranges whose extraction raised
  \* ---- globals and the external stores
  mode,               \* "notes_with_ocr" | "notes_no_ocr" | "books"
  DRY_RUN,
  max_workers,        \* the global MAX_WORKERS after main(): --workers
  notes,              \* rows of the 'notes' table
  books,              \* rows of the 'books' table
  subjects,           \* rows of the 'subjects' table: id, semester
  bucket,             \* keys of the objects held by the S3 bucket
  \* ---- migrate_with_mode
  all_files,          \* the work set, in the order of collection
  run,                \* which call of migrate_with_mode this is (1, 2, ...)
  m_pc,               \* "submit" | "collect" | "done"
  submitted,          \* how many futures executor.submit has created
  yieldQ,             \* finished futures in the order as_completed yields them
  completed,
  success,
  skipped,
  failed,
  failed_files,
  \* ---- process_file, one run per work item of the batch
  pc,                 \* "queued" | "exists" | "upload" | "subject_select" |
                      \* "subject_insert" | "ocr" | "insert" | "finished"
  extracted_text,     \* "None" | "text"
  result,             \* the dict process_file returns
  failure_order,      \* history: the items that returned a failure, in the
                      \* order in which their runs of process_file ended
  \* ---- history of each run of process_file
  url_existed,        \* what the existence check met: "unchecked", "found"
                      \* (row there, query answered), "missed" (row there,
                      \* query raised) or "absent" (no row)
  upload_runs,        \* calls of s3_upload_file that reached retry_loop
  insert_calls,       \* invocations of the notes / books insert
  starts,             \* how many times a worker entered process_file
  counted,            \* how many times as_completed yielded the future
  faults,             \* external calls that have failed in this run
  uploaded,           \* the upload of the item returned
  ocr_calls,          \* calls of the OCR step of process_file
  ocr_errors,         \* calls of the OCR service that raised, per file
  upload_attempt,     \* retry_loop's attempt while the upload of a file runs
  prev_outcome,       \* per file, of the run before: "none" | "success" |
                      \* "insert failed" | "other"
  \* ---- retry_loop
  rl_pc,              \* "idle" | "call" | "caught" | "returned" | "raised" |
                      \* "None"
  rl_outcomes,        \* rl_outcomes[k]: what the k-th invocation of func does
  rl_max_retries,
  rl_swallow,
  rl_attempt,
  calls,              \* history: invocations of func
  sleeps,             \* history: calls of time.sleep
  raised_call,        \* history: the invocation whose error left the loop
  \* ---- clean_ocr_text
  cl_pc,              \* "idle" | "input" | "once" | "twice"
  raw_text,           \* the argument: a text or None
  cleaned,            \* clean_ocr_text(raw_text)
  cleaned_again,      \* clean_ocr_text(cleaned)
  \* ---- the OCR stage of process_file, and extract_text_sync
  oc_pc,              \* "idle" | "route" | "sync" | "chunking" | "store" |
                      \* "done" | "failed"
  ext,                \* the file's extension, "none" for a direct call
  file_size,          \* os.path.getsize(file_path), in MiB
  mime_type,          \* the argument of extract_text_sync
  sync_calls,         \* history: calls of extract_text_sync on the payload
  ocr_requests,       \* history: calls of extract_text_from_*_bytes
  low_confidence,     \* history: the low-confidence warning was logged
  response_text,      \* history: the text of the Vision response, if any
  oc_text,            \* extracted_text of process_file
  base_metadata,      \* the record handed to insert_note_record
  \* ---- main and validate_startup
  st_pc,              \* "idle" | "main" | "validated" | "exited"
  env_set,            \* the settings the environment holds, non-empty
  base_path_isdir,    \* os.path.isdir(BASE_PATH)
  errors,             \* the list validate_startup builds
  exit_code,          \* the status the process exited with, -1 before
  \* ---- collect_files_from_path and build_s3_key on two files of a tree
  k_pc,               \* "idle" | "walk" | "done"
  exclude_books,      \* the argument of collect_files_from_path
  tree,               \* the two files os.walk meets: path_parts, filename
  collected,          \* all_files of collect_files_from_path
  keys,               \* build_s3_key of each collected file, in order
  \* ---- update_old_notes_with_ocr: the OCR backfill
  bf_pc,              \* "idle" | "query" | "pool" | "done" | "aborted" | "empty"
  FORCE_OCR,          \* the global FORCE_OCR
  note_rows,          \* the notes table: s3_url, ocr_text, is_ocr_done
  old_notes,          \* the ids the query returned (notes)
  n_pc,               \* per note: where update_single_note stands
  n_text,             \* per note: extracted_text
  n_success,          \* per note: result["success"] of the finished future
  collected_notes,    \* the futures as_completed has yielded
  processed,          \* processed
  bf_success,         \* success of update_old_notes_with_ocr
  bf_failed,          \* failed of update_old_notes_with_ocr
  rows_before,        \* history: the table when the backfill began
  n_cause             \* history: per note, why its result is what it is

ck_vars == <<ck_variant, ck_pc, total_pages, start_chunk_pages, page_size,
             page_idx, chunk_pages, gathered_text, plan, shrinks,
             shrinks_here, ocr_raised>>

store_vars == <<notes, books, subjects, bucket>>

config_vars == <<mode, DRY_RUN, max_workers, all_files>>

main_vars == <<run, m_pc, submitted, yieldQ, completed, success, skipped,
               failed, failed_files>>

file_vars == <<pc, extracted_text, result, failure_order>>

stage_vars == <<uploaded, ocr_calls, ocr_errors, upload_attempt>>

hist_vars == <<url_existed, upload_runs, insert_calls, starts, counted, faults,
               stage_vars>>

batch_vars == <<store_vars, config_vars, main_vars, file_vars, hist_vars,
                prev_outcome>>

retry_vars == <<rl_pc, rl_outcomes, rl_max_retries, rl_swallow, rl_attempt,
                calls, sleeps, raised_call>>

clean_vars == <<cl_pc, raw_text, cleaned, cleaned_again>>

ocr_vars == <<oc_pc, ext, file_size, mime_type, sync_calls, ocr_requests,
              low_confidence, response_text, oc_text, base_metadata>>

startup_vars == <<st_pc, env_set, base_path_isdir, errors, exit_code>>

key_vars == <<k_pc, exclude_books, tree, collected, keys>>

backfill_vars == <<bf_pc, FORCE_OCR, note_rows, old_notes, n_pc, n_text,
                   n_success, collected_notes, processed, bf_success,
                   bf_failed, rows_before, n_cause>>

aux_vars == <<startup_vars, key_vars, backfill_vars>>

util_vars == <<retry_vars, clean_vars, ocr_vars, aux_vars>>

vars == <<ck_vars, batch_vars, util_vars>>

\* ----------------------------------------------------------------- helpers
Max(a, b) == IF a >= b THEN a ELSE b

Min(a, b) == IF a <= b THEN a ELSE b

Last(s) == s[Len(s)]

\* ======================================================================
\* dynamic_chunk_and_ocr_pdf
\* ======================================================================

\* pdf_reader.pages[p] serialized alone; a page outside the document adds
\* nothing (the code never asks for one: end_page is clamped).
PageSizeAt(p) == IF p + 1 \in DOMAIN page_size THEN page_size[p + 1] ELSE 0

\* chunk_size = len(buf.getbuffer()) for the pages [from, to): the writer
\* holds exactly the pages added, so the size is the sum of the pages' sizes.
RECURSIVE ChunkSize(_, _)
ChunkSize(from, to) ==
  IF from >= to THEN 0 ELSE PageSizeAt(from) + ChunkSize(from + 1, to)

EndPageUnclamped(idx, cp, total) == idx + cp

\* end_page = min(page_idx + chunk_pages, total_pages)
EndPage(idx, cp, total) == Min(idx + cp, total)

ShrinkNever(size, cp) == FALSE

\* if chunk_size > SYNC_LIMIT and chunk_pages > CHUNK_MIN_PAGES
MustShrink(size, cp) == size > SYNC_LIMIT /\ cp > CHUNK_MIN_PAGES

SkipNever(size, cp) == FALSE

\* if chunk_size > SYNC_LIMIT and chunk_pages == CHUNK_MIN_PAGES
MustSkip(size, cp) == size > SYNC_LIMIT /\ cp = CHUNK_MIN_PAGES

HalveByOne(cp) == Max(CHUNK_MIN_PAGES, cp - 1)

\* chunk_pages = max(CHUNK_MIN_PAGES, chunk_pages // 2)
Halve(cp) == Max(CHUNK_MIN_PAGES, cp \div 2)

RampUpUncapped(cp, start) == IF cp < start THEN cp * 2 ELSE cp

\* if chunk_pages < start_chunk_pages:
\*     chunk_pages = min(start_chunk_pages, chunk_pages * 2)
RampUp(cp, start) == IF cp < start THEN Min(start, cp * 2) ELSE cp

StayAt(idx, end) == idx

\* page_idx = end_page
AdvanceTo(idx, end) == end

Range(from, to, kind) == [from |-> from, to |-> to, kind |-> kind]

\* The state of the batch while none runs.
\* retry_loop is not running.
RetryIdle ==
  /\ rl_pc = "idle"
  /\ rl_outcomes = <<>>
  /\ rl_max_retries = 0
  /\ rl_swallow = FALSE
  /\ rl_attempt = 0
  /\ calls = 0
  /\ sleeps = 0
  /\ raised_call = 0

\* The state of clean_ocr_text's check while another part is what runs.
CleanIdle ==
  /\ cl_pc = "idle"
  /\ raw_text = <<>>
  /\ cleaned = <<>>
  /\ cleaned_again = <<>>

\* No OCR stage is running.
OcrIdle ==
  /\ oc_pc = "idle"
  /\ ext = "none"
  /\ file_size = 0
  /\ mime_type = <<>>
  /\ sync_calls = 0
  /\ ocr_requests = 0
  /\ low_confidence = FALSE
  /\ response_text = <<>>
  /\ oc_text = <<>>
  /\ base_metadata = <<>>

\* main is not what runs.
StartupIdle ==
  /\ st_pc = "idle"
  /\ env_set = {}
  /\ base_path_isdir = FALSE
  /\ errors = <<>>
  /\ exit_code = -1

\* No tree is being walked.
KeyIdle ==
  /\ k_pc = "idle"
  /\ exclude_books = FALSE
  /\ tree = <<>>
  /\ collected = <<>>
  /\ keys = <<>>

\* No backfill is running.
BackfillIdle ==
  /\ bf_pc = "idle"
  /\ FORCE_OCR = FALSE
  /\ note_rows = <<>>
  /\ old_notes = {}
  /\ n_pc = <<>>
  /\ n_text = <<>>
  /\ n_success = <<>>
  /\ collected_notes = {}
  /\ processed = 0
  /\ bf_success = 0
  /\ bf_failed = 0
  /\ rows_before = <<>>
  /\ n_cause = <<>>

AuxIdle == StartupIdle /\ KeyIdle /\ BackfillIdle

\* No batch is running, whatever the mode and the dry-run flag are.
BatchQuiet ==
  /\ max_workers = MAX_WORKERS
  /\ notes = {}
  /\ books = {}
  /\ subjects = {}
  /\ bucket = {}
  /\ all_files = <<>>
  /\ run = 0
  /\ m_pc = "done"
  /\ submitted = 0
  /\ yieldQ = <<>>
  /\ completed = 0
  /\ success = 0
  /\ skipped = 0
  /\ failed = 0
  /\ failed_files = <<>>
  /\ pc = <<>>
  /\ extracted_text = <<>>
  /\ result = <<>>
  /\ failure_order = <<>>
  /\ url_existed = <<>>
  /\ upload_runs = <<>>
  /\ insert_calls = <<>>
  /\ starts = <<>>
  /\ counted = <<>>
  /\ faults = 0
  /\ uploaded = <<>>
  /\ ocr_calls = <<>>
  /\ ocr_errors = <<>>
  /\ upload_attempt = <<>>
  /\ prev_outcome = <<>>

BatchIdle ==
  /\ mode = "notes_with_ocr"
  /\ DRY_RUN = FALSE
  /\ BatchQuiet

ChunkInputs ==
  /\ ck_variant \in {"migration", "backend"}
  /\ ck_pc = "start"
  /\ total_pages \in 0..MaxPages
  /\ start_chunk_pages \in (0 - 1)..MaxStartChunk
  /\ page_size \in [1..total_pages -> PageSizes]
  /\ page_idx = 0
  /\ chunk_pages = 0
  /\ gathered_text = <<>>
  /\ plan = <<>>
  /\ shrinks = 0
  /\ shrinks_here = 0
  /\ ocr_raised = <<>>

extract_text_sync_ignoring(service_errors, text) == text

\* extract_text_sync: extract_text_from_image_bytes and
\* extract_text_from_pdf_bytes log an error of the Vision call and raise it
\* again; extract_text_sync catches every Exception, logs a warning and
\* returns None. Without an error it returns the cleaned text, or None when
\* there is none.
extract_text_sync(service_errors, text) ==
  IF service_errors THEN "None" ELSE text

\* PdfReader(io.BytesIO(pdf_bytes)) raises: the function returns None.
ChunkUnreadable ==
  /\ ck_pc = "start"
  /\ ck_pc' = "unreadable"
  /\ UNCHANGED <<ck_variant, total_pages, start_chunk_pages, page_size,
                 page_idx, chunk_pages, gathered_text, plan, shrinks,
                 shrinks_here, ocr_raised>>
  /\ UNCHANGED <<batch_vars, util_vars>>

\* The reader opens; an empty document returns None at once, otherwise the
\* loop variables are set.
ChunkOpen ==
  /\ ck_pc = "start"
  /\ ck_pc' = IF total_pages = 0 THEN "done" ELSE "loop"
  /\ page_idx' = 0
  /\ chunk_pages' = Max(start_chunk_pages, CHUNK_MIN_PAGES)
  /\ gathered_text' = <<>>
  /\ UNCHANGED <<ck_variant, total_pages, start_chunk_pages, page_size, plan,
                 shrinks, shrinks_here, ocr_raised>>
  /\ UNCHANGED <<batch_vars, util_vars>>

\* One iteration that finds the candidate too large and halves the window.
ChunkShrink ==
  /\ ck_pc = "loop"
  /\ page_idx < total_pages
  /\ LET end_page == EndPage(page_idx, chunk_pages, total_pages)
         chunk_size == ChunkSize(page_idx, end_page)
     IN /\ MustShrink(chunk_size, chunk_pages)
        /\ chunk_pages' = Halve(chunk_pages)
        /\ shrinks' = shrinks + 1
        /\ shrinks_here' = shrinks_here + 1
  /\ UNCHANGED <<ck_variant, ck_pc, total_pages, start_chunk_pages, page_size,
                 page_idx, gathered_text, plan,
                 ocr_raised>>
  /\ UNCHANGED <<batch_vars, util_vars>>

\* One iteration that finds a single page over the limit and skips it.
ChunkSkip ==
  /\ ck_pc = "loop"
  /\ page_idx < total_pages
  /\ LET end_page == EndPage(page_idx, chunk_pages, total_pages)
         chunk_size == ChunkSize(page_idx, end_page)
     IN /\ ~MustShrink(chunk_size, chunk_pages)
        /\ MustSkip(chunk_size, chunk_pages)
        /\ page_idx' = AdvanceTo(page_idx, end_page)
        /\ plan' = Append(plan, Range(page_idx, end_page, "skipped"))
        /\ shrinks_here' = 0
  /\ UNCHANGED <<ck_variant, ck_pc, total_pages, start_chunk_pages, page_size,
                 chunk_pages, gathered_text, shrinks,
                 ocr_raised>>
  /\ UNCHANGED <<batch_vars, util_vars>>

\* One iteration that sends the range to extract_text_sync, which returns a
\* text or None (None also when the extraction raised: it swallows every
\* error), then advances and ramps the window up.
ChunkProcess ==
  /\ ck_pc = "loop"
  /\ page_idx < total_pages
  /\ LET end_page == EndPage(page_idx, chunk_pages, total_pages)
         chunk_size == ChunkSize(page_idx, end_page)
     IN /\ ~MustShrink(chunk_size, chunk_pages)
        /\ ~MustSkip(chunk_size, chunk_pages)
        /\ \E service_errors \in BOOLEAN, found \in {"None", "text"} :
             LET text == extract_text_sync(service_errors, found)
             IN /\ gathered_text' =
                     IF text # "None"
                       THEN Append(gathered_text, <<page_idx, end_page>>)
                       ELSE gathered_text
                /\ ocr_raised' =
                     IF service_errors
                       THEN Append(ocr_raised, <<page_idx, end_page>>)
                       ELSE ocr_raised
        /\ page_idx' = AdvanceTo(page_idx, end_page)
        /\ chunk_pages' = RampUp(chunk_pages, start_chunk_pages)
        /\ plan' = Append(plan, Range(page_idx, end_page, "processable"))
        /\ shrinks_here' = 0
  /\ UNCHANGED <<ck_variant, ck_pc, total_pages, start_chunk_pages, page_size,
                 shrinks>>
  /\ UNCHANGED <<batch_vars, util_vars>>

\* One iteration in which adding the pages to the writer or writing the
\* buffer raises. migration/: the except clause logs, sets page_idx to
\* end_page and continues. backend/scripts/: there is no try, the error
\* leaves the function.
ChunkError ==
  /\ ck_pc = "loop"
  /\ page_idx < total_pages
  /\ LET end_page == EndPage(page_idx, chunk_pages, total_pages)
     IN IF ck_variant = "migration"
          THEN /\ page_idx' = AdvanceTo(page_idx, end_page)
               /\ plan' = Append(plan, Range(page_idx, end_page, "dropped"))
               /\ shrinks_here' = 0
               /\ ck_pc' = ck_pc
          ELSE /\ ck_pc' = "raised"
               /\ UNCHANGED <<page_idx, plan, shrinks_here>>
  /\ UNCHANGED <<ck_variant, total_pages, start_chunk_pages, page_size,
                 chunk_pages, gathered_text, shrinks,
                 ocr_raised>>
  /\ UNCHANGED <<batch_vars, util_vars>>

\* while page_idx < total_pages fails: the function returns.
ChunkDone ==
  /\ ck_pc = "loop"
  /\ page_idx >= total_pages
  /\ ck_pc' = "done"
  /\ UNCHANGED <<ck_variant, total_pages, start_chunk_pages, page_size,
                 page_idx, chunk_pages, gathered_text, plan, shrinks,
                 shrinks_here, ocr_raised>>
  /\ UNCHANGED <<batch_vars, util_vars>>

NextChunk ==
  \/ ChunkUnreadable
  \/ ChunkOpen
  \/ ChunkShrink
  \/ ChunkSkip
  \/ ChunkProcess
  \/ ChunkError
  \/ ChunkDone

\* The chunker alone: no batch is running.
InitChunk ==
  ChunkInputs /\ BatchIdle /\ RetryIdle /\ CleanIdle /\ OcrIdle /\ AuxIdle

SpecChunk == InitChunk /\ [][NextChunk]_vars

\* Every iteration of the loop is a step of the running function: it is
\* taken whenever it can be.
SpecChunkFair == SpecChunk /\ WF_vars(NextChunk)

\* ======================================================================
\* Utilities: retry_loop, build_s3_key, build_file_url, build_subject_id
\* ======================================================================

\* retry_loop(func, max_retries, ..., swallow), from the point where `attempt`
\* failures have been counted. outcomes[k] is what the k-th invocation of
\* func does: "ok", "retryable" (an error matching allowed_exceptions) or
\* "other" (an error that does not match). The value tells how many times
\* func was invoked, how many times the loop slept and how the loop ended.
RECURSIVE retry_loop(_, _, _, _)
retry_loop(outcomes, attempt, max_retries, swallow) ==
  LET o == outcomes[attempt + 1]
      ended(how) == [calls |-> attempt + 1, sleeps |-> attempt, result |-> how]
  IN IF o = "ok" THEN ended("returned")
     ELSE IF o = "other" THEN ended("raised")
     ELSE IF attempt + 1 > max_retries
            THEN ended(IF swallow THEN "None" ELSE "raised")
            ELSE retry_loop(outcomes, attempt + 1, max_retries, swallow)

\* s3_upload_file retries on every Exception: each invocation of _upload
\* either succeeds or fails with a retryable error.
\* retry_loop does not look past the first success, so the outcomes are
\* given as k failures followed by successes, k = 0 .. MAX_RETRIES + 1.
UploadOutcomes ==
  { [n \in 1..(MAX_RETRIES + 1) |-> IF n <= k THEN "retryable" ELSE "ok"] :
    k \in 0..(MAX_RETRIES + 1) }

\* Labels and names are sequences of one-character strings.
Digits == {"0", "1", "2", "3", "4", "5", "6", "7", "8", "9"}

IsDigit(c) == c \in Digits

\* str(int(digits)): the decimal digits without their leading zeros.
RECURSIVE IntStr(_)
IntStr(digits) ==
  IF Len(digits) > 1 /\ Head(digits) = "0" THEN IntStr(Tail(digits)) ELSE digits

\* year_component, as it is formatted into the key: the digits of
\* path_parts[1] read as an integer, or path_parts[1] itself when it holds
\* no digit (ValueError), or "unknown" when there is no path_parts[1].
YearComponent(path_parts) ==
  IF Len(path_parts) > 1
    THEN LET digits == SelectSeq(path_parts[2], IsDigit)
         IN IF digits = <<>> THEN path_parts[2] ELSE IntStr(digits)
    ELSE <<"u", "n", "k", "n", "o", "w", "n">>

\* f"{branch}/{year_component}/{subject}/{resource_type}/{filename}"
build_s3_key(path_parts, filename) ==
  << path_parts[1],
     YearComponent(path_parts),
     IF Len(path_parts) > 2 THEN path_parts[3] ELSE "unknown",
     IF Len(path_parts) > 3 THEN path_parts[4] ELSE "Notes",
     filename >>

\* f"https://{S3_BUCKET_NAME}.s3.amazonaws.com/{s3_key}"
build_file_url(path_parts, filename) ==
  <<"https://bucket.s3.amazonaws.com">> \o build_s3_key(path_parts, filename)

build_subject_id_raw(path_parts) ==
  << path_parts[1],
     IF Len(path_parts) > 1 THEN path_parts[2] ELSE "unknown",
     IF Len(path_parts) > 2 THEN path_parts[3] ELSE "unknown" >>

\* uuid5(NAMESPACE_DNS, f"{branch}-{year}-{subject_name}"), year being the
\* digits of path_parts[1] read as an integer: the id is the name it is
\* derived from.
build_subject_id(path_parts) ==
  << path_parts[1],
     YearComponent(path_parts),
     IF Len(path_parts) > 2 THEN path_parts[3] ELSE "unknown" >>

\* ======================================================================
\* The work set
\* ======================================================================

\* The directories of the tree, as their path_parts. The two period labels
\* hold the same number, so both directories normalize to the same period.
DirParts(d) ==
  IF d = 1 THEN <<"CSE", <<"S", "e", "m", "1">>, "Maths", "Notes">>
           ELSE <<"CSE", <<"Y", "r", "0", "1">>, "Maths", "Notes">>

\* The k-th file os.walk finds: files 1 and 2 have the same name in the two
\* directories, file 3 has another name, and so on.
FileAt(k) ==
  LET stem == (k + 1) \div 2
  IN [ filename |-> [stem |-> stem, ext |-> IF stem % 2 = 1 THEN "pdf" ELSE "jpg"],
       path_parts |-> DirParts(2 - (k % 2)) ]

\* collect_files_from_path: the first n files of the walk, n >= 1.
WorkSets(max) == { [k \in 1..n |-> FileAt(k)] : n \in 1..max }

FileUrl(f) == build_file_url(f.path_parts, f.filename)

FileKey(f) == build_s3_key(f.path_parts, f.filename)

NumFiles == Len(all_files)

Files == 1..NumFiles

\* ======================================================================
\* The record store (Supabase) and the pool
\* ======================================================================

\* The table process_file reads and writes in this mode.
Table == IF mode = "books" THEN books ELSE notes

UrlInNever(table, url) == FALSE

\* .select("id").eq("s3_url", file_url): some row has this URL.
UrlIn(table, url) == \E r \in table : r.s3_url = url

StoreAcceptsAnything(table, row) == TRUE

\* insert(table, record) -> ok | duplicateKeyError: the store refuses a row
\* whose s3_url a row of the table already has.
StoreAccepts(table, row) == ~UrlIn(table, row.s3_url)

Running == {i \in Files : pc[i] \notin {"queued", "finished"}}

WorkerAlwaysFree == TRUE

\* ThreadPoolExecutor(max_workers=MAX_WORKERS): a queued future is taken only
\* by a thread that runs no other, and there are max_workers threads.
WorkerFree == Cardinality(Running) < max_workers

NewResult == [success |-> FALSE, reason |-> ""]

\* What the future of a work item holds when process_file did not return:
\* an exception, which future.result() raises in the main thread.
RaisedResult == [success |-> FALSE, reason |-> "raised by future.result()"]

\* How process_file ends once an error has reached `except Exception`
\* (lines 777-781): it returns the result with the reason filled in, or the
\* handler itself raises (logging the traceback, str(e)) and the error
\* leaves process_file.
HandlerOutcomes(r) == {r, RaisedResult}

RaisedNeverCounted(r) == FALSE

\* future.result() raises: the except clause of the collection loop (lines
\* 839-841) takes the future.
FutureRaises(r) == r = RaisedResult

ExhaustedEarly(att, max) == att >= max

ExhaustedLate(att, max) == att > max + 1

\* if attempt > max_retries: the retries are used up (attempt has just been
\* incremented for the error that was caught).
Exhausted(att, max) == att > max

\* Whether one more external call (a file read, a store query, an upload, an
\* insert) may fail in this run: at most MaxFaults of them do.
MayFail == IF faults < MaxFaults THEN BOOLEAN ELSE {FALSE}

Fault(failed_call) == faults' = IF failed_call THEN faults + 1 ELSE faults

exists_never(table, url, query_fails) == FALSE

\* exists_checker, mutated to take a query that raises for a row found.
exists_unless_error(table, url, query_fails) ==
  IF query_fails THEN TRUE ELSE UrlIn(table, url)

\* note_exists_in_db / book_exists_in_db: whether the select returned a row;
\* a query that raises is logged and answered False.
exists_checker(table, url, query_fails) ==
  IF query_fails THEN FALSE ELSE UrlIn(table, url)

UploadSwallowed(r) == FALSE

\* s3_upload_file calls retry_loop with swallow left False: an exhausted
\* upload raises, and process_file's except Exception clause returns.
UploadRaised(r) == r.result = "raised"

\* What the collection loop counts in failed and lists in failed_files: a
\* returned result that is neither a success nor one of the two skips.
IsFailure(r) ==
  /\ ~r.success
  /\ r.reason \notin {"already_exists", "already_exists_duplicate"}
  /\ r # RaisedResult

FinishFailureLost(i, r) ==
  /\ pc' = [pc EXCEPT ![i] = "finished"]
  /\ result' = [result EXCEPT ![i] = r]
  /\ failure_order' = IF IsFailure(r) THEN Append(failure_order, i)
                                      ELSE failure_order
  /\ yieldQ' = IF m_pc = "collect" /\ r.success THEN Append(yieldQ, i) ELSE yieldQ

FinishJumpsQueue(i, r) ==
  /\ pc' = [pc EXCEPT ![i] = "finished"]
  /\ result' = [result EXCEPT ![i] = r]
  /\ failure_order' = IF IsFailure(r) THEN Append(failure_order, i)
                                      ELSE failure_order
  /\ yieldQ' = IF m_pc = "collect" THEN <<i>> \o yieldQ ELSE yieldQ

\* The future of file i finishes with result r: as_completed yields it after
\* the futures that finished before it, once the main thread waits in it.
Finish(i, r) ==
  /\ pc' = [pc EXCEPT ![i] = "finished"]
  /\ result' = [result EXCEPT ![i] = r]
  /\ failure_order' = IF IsFailure(r) THEN Append(failure_order, i)
                                      ELSE failure_order
  /\ yieldQ' = IF m_pc = "collect" THEN Append(yieldQ, i) ELSE yieldQ

\* ======================================================================
\* migrate_with_mode and process_file
\* ======================================================================

\* main() has set the globals and migrate_with_mode has collected work_set;
\* the table of the mode may already hold rows for some of its URLs.
InitBatch(work_sets) ==
  /\ mode \in {"notes_with_ocr", "notes_no_ocr", "books"}
  /\ DRY_RUN \in BOOLEAN
  /\ max_workers \in 1..MAX_WORKERS
  /\ all_files \in work_sets
  /\ \E existing \in SUBSET {FileUrl(all_files[k]) : k \in 1..Len(all_files)} :
       LET rows == { [id |-> <<0, url>>, s3_url |-> url,
                      ocr_text |-> "None", is_ocr_done |-> FALSE] :
                     url \in existing }
       IN /\ notes = IF mode = "books" THEN {} ELSE rows
          /\ books = IF mode = "books" THEN rows ELSE {}
  /\ subjects = {}
  /\ bucket = {}
  /\ run = 1
  /\ m_pc = "submit"
  /\ submitted = 0
  /\ yieldQ = <<>>
  /\ completed = 0
  /\ success = 0
  /\ skipped = 0
  /\ failed = 0
  /\ failed_files = <<>>
  /\ pc = [i \in Files |-> "queued"]
  /\ extracted_text = [i \in Files |-> "None"]
  /\ result = [i \in Files |-> NewResult]
  /\ failure_order = <<>>
  /\ url_existed = [i \in Files |-> "unchecked"]
  /\ upload_runs = [i \in Files |-> 0]
  /\ insert_calls = [i \in Files |-> 0]
  /\ starts = [i \in Files |-> 0]
  /\ counted = [i \in Files |-> 0]
  /\ faults = 0
  /\ uploaded = [i \in Files |-> FALSE]
  /\ ocr_calls = [i \in Files |-> 0]
  /\ ocr_errors = [i \in Files |-> 0]
  /\ upload_attempt = [i \in Files |-> 0]
  /\ prev_outcome = [i \in Files |-> "none"]

\* executor.submit(process_file, file_tuple, mode) for the next file.
Submit ==
  /\ m_pc = "submit"
  /\ submitted < NumFiles
  /\ submitted' = submitted + 1
  /\ UNCHANGED <<ck_vars, util_vars, store_vars, config_vars, prev_outcome,
                 file_vars, hist_vars, run,
                 m_pc, yieldQ, completed, success, skipped, failed, failed_files>>

\* A free worker thread of the pool takes the oldest queued future and enters
\* process_file (lines 696-699: the file tuple and a fresh result).
Start(i) ==
  /\ pc[i] = "queued"
  /\ i <= submitted
  /\ \A j \in 1..(i - 1) : pc[j] # "queued"
  /\ WorkerFree
  /\ pc' = [pc EXCEPT ![i] = "exists"]
  /\ starts' = [starts EXCEPT ![i] = @ + 1]
  /\ UNCHANGED <<ck_vars, util_vars, store_vars, config_vars, prev_outcome,
                 main_vars,
                 extracted_text, result, failure_order, url_existed,
                 upload_runs, insert_calls,
                 counted, faults, stage_vars>>

\* os.path.getsize(file_path), then exists_checker(file_url). A file that
\* cannot be read raises into process_file's except Exception clause before
\* the store is asked; a query that raises is logged and answers False.
ExistsCheck(i) ==
  /\ pc[i] = "exists"
  /\ \E unreadable, query_fails \in MayFail :
       LET url == FileUrl(all_files[i])
           there == UrlIn(Table, url)
           exists == exists_checker(Table, url, query_fails)
       IN IF unreadable
            THEN /\ \E r \in HandlerOutcomes([success |-> FALSE,
                                              reason |-> "No such file or directory"]) :
                      Finish(i, r)
                 /\ Fault(TRUE)
                 /\ UNCHANGED url_existed
            ELSE /\ Fault(query_fails)
                 /\ url_existed' = [url_existed EXCEPT ![i] =
                      IF ~there THEN "absent"
                      ELSE IF query_fails THEN "missed" ELSE "found"]
                 /\ IF exists
                      THEN Finish(i, [success |-> FALSE, reason |-> "already_exists"])
                      ELSE /\ pc' = [pc EXCEPT ![i] = "upload"]
                           /\ UNCHANGED <<result, yieldQ, failure_order>>
  /\ UNCHANGED <<ck_vars, util_vars, store_vars, config_vars, prev_outcome,
                 extracted_text,
                 run, m_pc, submitted, completed, success, skipped, failed,
                 failed_files, upload_runs, insert_calls, starts, counted,
                 stage_vars>>

\* s3_upload_file(file_path, S3_BUCKET_NAME, s3_key), then the dry-run return
\* of process_file. In a dry run nothing is uploaded. Otherwise each step is
\* one invocation of _upload under retry_loop(_upload,
\* allowed_exceptions=(Exception,)): it returns, and process_file goes on; or
\* it raises, attempt is counted and the loop sleeps and calls again; or it
\* raises with the retries exhausted, and the error goes to process_file's
\* except Exception clause. attempt is retry_loop's local: it is gone when
\* the loop is left.
DryRunIgnored(dry_run) == FALSE

\* In a dry run s3_upload_file logs and returns before it builds the upload,
\* and process_file returns its success right after that call.
DryRunReturns(dry_run) == dry_run

Upload(i) ==
  /\ pc[i] = "upload"
  /\ IF DryRunReturns(DRY_RUN)
       THEN /\ Finish(i, [success |-> TRUE, reason |-> "dry_run"])
            /\ UNCHANGED <<bucket, upload_runs, faults, uploaded, upload_attempt>>
       ELSE \E o \in {"ok", "retryable"} :
              IF o = "ok"
                THEN /\ bucket' = bucket \cup {FileKey(all_files[i])}
                     /\ uploaded' = [uploaded EXCEPT ![i] = TRUE]
                     /\ upload_runs' = [upload_runs EXCEPT ![i] = @ + 1]
                     /\ upload_attempt' = [upload_attempt EXCEPT ![i] = 0]
                     /\ pc' = [pc EXCEPT ![i] = "subject_select"]
                     /\ UNCHANGED <<result, yieldQ, failure_order, faults>>
              ELSE IF Exhausted(upload_attempt[i] + 1, MAX_RETRIES)
                THEN /\ TRUE \in MayFail
                     /\ Fault(TRUE)
                     /\ upload_runs' = [upload_runs EXCEPT ![i] = @ + 1]
                     /\ upload_attempt' = [upload_attempt EXCEPT ![i] = 0]
                     /\ UNCHANGED <<bucket, uploaded>>
                     /\ IF UploadRaised([result |-> "raised"])
                          THEN \E r \in HandlerOutcomes([success |-> FALSE,
                                                       reason |-> "upload failed"]) :
                                 Finish(i, r)
                          ELSE /\ pc' = [pc EXCEPT ![i] = "subject_select"]
                               /\ UNCHANGED <<result, yieldQ, failure_order>>
                ELSE /\ upload_attempt' = [upload_attempt EXCEPT ![i] = @ + 1]
                     /\ UNCHANGED <<bucket, uploaded, upload_runs, faults, pc,
                                    result, yieldQ, failure_order>>
  /\ UNCHANGED <<ck_vars, util_vars, notes, books, subjects, config_vars,
                 prev_outcome,
                 extracted_text, run, m_pc, submitted, completed, success,
                 skipped, failed, failed_files, url_existed, insert_calls,
                 starts, counted, ocr_calls, ocr_errors>>

\* Where process_file goes after ensure_subject_record.
AfterSubject == IF mode = "notes_with_ocr" THEN "ocr" ELSE "insert"

\* ensure_subject_record, the select: a row found returns the id; a query
\* that raises is logged and the insert is tried.
SubjectSelect(i) ==
  /\ pc[i] = "subject_select"
  /\ \E query_fails \in MayFail :
       LET subject_id == build_subject_id(all_files[i].path_parts)
           found == ~query_fails /\ \E r \in subjects : r.id = subject_id
       IN /\ pc' = [pc EXCEPT ![i] = IF found THEN AfterSubject ELSE "subject_insert"]
          /\ Fault(query_fails)
  /\ UNCHANGED <<ck_vars, util_vars, store_vars, config_vars, prev_outcome,
                 main_vars,
                 extracted_text, result, failure_order, url_existed,
                 upload_runs, insert_calls,
                 starts, counted, stage_vars>>

\* The 'subjects' table takes a row unless it holds one with the same id.
SubjectStoreAccepts(table, row) == \A r \in table : r.id # row.id

\* The row ensure_subject_record inserts: the id and the fields read from
\* path_parts as they are (branch and name are those of the id).
SubjectRow(path_parts) ==
  [ id |-> build_subject_id(path_parts),
    semester |-> IF Len(path_parts) > 1 THEN path_parts[2] ELSE "unknown" ]

\* ensure_subject_record, the insert: any error (the row exists already, or
\* the call failed) is logged and the id is returned all the same.
SubjectInsert(i) ==
  /\ pc[i] = "subject_insert"
  /\ \E call_fails \in MayFail :
       /\ LET row == SubjectRow(all_files[i].path_parts)
          IN subjects' = IF call_fails \/ ~SubjectStoreAccepts(subjects, row)
                           THEN subjects
                           ELSE subjects \cup {row}
       /\ Fault(call_fails)
  /\ pc' = [pc EXCEPT ![i] = AfterSubject]
  /\ UNCHANGED <<ck_vars, util_vars, notes, books, bucket, config_vars,
                 prev_outcome,
                 main_vars, extracted_text, result, failure_order, url_existed,
                 upload_runs,
                 insert_calls, starts, counted, stage_vars>>

\* mode == "notes_with_ocr": dynamic_chunk_and_ocr_pdf or extract_text_sync.
\* The chunker gets its text from extract_text_sync too, and has its own
\* except clause around each chunk, so neither lets an error of the OCR call
\* out to process_file.
Ocr(i) ==
  /\ pc[i] = "ocr"
  /\ \E service_errors \in MayFail, text \in {"None", "text"} :
       /\ extracted_text' = [extracted_text EXCEPT ![i] =
                               extract_text_sync(service_errors, text)]
       /\ ocr_errors' = [ocr_errors EXCEPT ![i] =
                           IF service_errors THEN @ + 1 ELSE @]
       /\ Fault(service_errors)
  /\ ocr_calls' = [ocr_calls EXCEPT ![i] = @ + 1]
  /\ pc' = [pc EXCEPT ![i] = "insert"]
  /\ UNCHANGED <<ck_vars, util_vars, store_vars, config_vars, prev_outcome,
                 main_vars, result, failure_order,
                 url_existed, upload_runs, insert_calls, starts, counted,
                 uploaded, upload_attempt>>

\* base_metadata as it is inserted (uuid4 ids are fresh: run and file).
Row(i) ==
  [ id |-> <<run, i>>,
    s3_url |-> FileUrl(all_files[i]),
    ocr_text |-> extracted_text[i],
    is_ocr_done |-> (mode = "notes_with_ocr" /\ extracted_text[i] # "None") ]

\* How process_file ends when the store answers the insert with a
\* duplicate-key error: insert_note_record raises DuplicateRecordError, which
\* process_file turns into already_exists_duplicate; insert_book_record
\* re-raises the store's error, which process_file reports as the reason.
DuplicateResult ==
  IF mode = "books"
    THEN [success |-> FALSE, reason |-> "duplicate key value violates unique constraint"]
    ELSE [success |-> FALSE, reason |-> "already_exists_duplicate"]

CompensatingDelete(objects, key) == objects \ {key}

\* except DuplicateRecordError / except Exception at the end of process_file:
\* the result is filled in and returned; the object uploaded before stays
\* where it is.
KeptAfterFailure(objects, key) == objects

\* insert_book_record / insert_note_record, then the end of process_file.
Insert(i) ==
  /\ pc[i] = "insert"
  /\ insert_calls' = [insert_calls EXCEPT ![i] = @ + 1]
  /\ \E call_fails \in MayFail :
       /\ Fault(call_fails)
       /\ IF call_fails
            THEN /\ \E r \in HandlerOutcomes([success |-> FALSE,
                                              reason |-> "insert failed"]) :
                      Finish(i, r)
                 /\ bucket' = KeptAfterFailure(bucket, FileKey(all_files[i]))
                 /\ UNCHANGED <<notes, books>>
            ELSE IF ~StoreAccepts(Table, Row(i))
              THEN /\ \E r \in (IF mode = "books"
                                    THEN HandlerOutcomes(DuplicateResult)
                                    ELSE {DuplicateResult}) :
                        Finish(i, r)
                   /\ bucket' = KeptAfterFailure(bucket, FileKey(all_files[i]))
                   /\ UNCHANGED <<notes, books>>
              ELSE /\ Finish(i, [success |-> TRUE, reason |-> ""])
                   /\ notes' = IF mode = "books" THEN notes ELSE notes \cup {Row(i)}
                   /\ books' = IF mode = "books" THEN books \cup {Row(i)} ELSE books
                   /\ UNCHANGED bucket
  /\ UNCHANGED <<ck_vars, util_vars, subjects, config_vars, prev_outcome,
                 extracted_text, run, m_pc, submitted, completed, success,
                 skipped, failed, failed_files, url_existed, upload_runs,
                 starts, counted, stage_vars>>

\* The orders in which as_completed may yield the futures that had finished
\* when it was called: it takes them from a set.
Orders(S) ==
  { q \in [1..Cardinality(S) -> S] : \A a, b \in 1..Cardinality(S) : q[a] = q[b] => a = b }

\* All futures are created; the main thread enters as_completed(futures).
AsCompleted ==
  /\ m_pc = "submit"
  /\ submitted = NumFiles
  /\ m_pc' = "collect"
  /\ yieldQ' \in Orders({i \in Files : pc[i] = "finished"})
  /\ UNCHANGED <<ck_vars, util_vars, store_vars, config_vars, prev_outcome,
                 file_vars,
                 hist_vars, run, submitted, completed, success, skipped, failed,
                 failed_files>>

\* One iteration of `for future in as_completed(futures)`: completed is
\* counted, then future.result() returns the dict of process_file, which is
\* counted by its fields, or raises, which the except clause counts as one
\* failure without an entry in failed_files.
Collect ==
  /\ m_pc = "collect"
  /\ yieldQ # <<>>
  /\ LET i == Head(yieldQ)
         r == result[i]
         is_skip == r.reason \in {"already_exists", "already_exists_duplicate"}
     IN /\ completed' = completed + 1
        /\ IF FutureRaises(r)
             THEN /\ failed' = failed + 1
                  /\ UNCHANGED <<success, skipped, failed_files>>
             ELSE /\ success' = IF r.success THEN success + 1 ELSE success
                  /\ skipped' = IF ~r.success /\ is_skip
                                   THEN skipped + 1 ELSE skipped
                  /\ failed' = IF ~r.success /\ ~is_skip
                                  THEN failed + 1 ELSE failed
                  /\ failed_files' =
                       IF ~r.success /\ ~is_skip
                         THEN Append(failed_files,
                                     [filename |-> all_files[i].filename,
                                      reason |-> r.reason])
                         ELSE failed_files
        /\ counted' = [counted EXCEPT ![i] = @ + 1]
  /\ yieldQ' = Tail(yieldQ)
  /\ UNCHANGED <<ck_vars, util_vars, store_vars, config_vars, prev_outcome,
                 file_vars, run,
                 m_pc, submitted, url_existed, upload_runs, insert_calls,
                 starts, faults, stage_vars>>

\* as_completed is exhausted, the executor shuts down, the report is logged.
Report ==
  /\ m_pc = "collect"
  /\ completed = NumFiles
  /\ m_pc' = "done"
  /\ UNCHANGED <<ck_vars, util_vars, store_vars, config_vars, prev_outcome,
                 file_vars,
                 hist_vars, run, submitted, yieldQ, completed, success, skipped,
                 failed, failed_files>>

\* What a later run is asked about a result of the run before it: whether
\* process_file returned success, or failed at its insert after the upload.
OutcomeOf(r) ==
  IF r.success THEN "success"
  ELSE IF r.reason = "insert failed" THEN "insert failed"
  ELSE "other"

\* The script is run again over the same tree: the stores keep their rows
\* and objects, everything else starts afresh.
MigrateAgain ==
  /\ m_pc = "done"
  /\ run >= 1
  /\ run < MaxRuns
  /\ run' = run + 1
  /\ m_pc' = "submit"
  /\ submitted' = 0
  /\ yieldQ' = <<>>
  /\ completed' = 0
  /\ success' = 0
  /\ skipped' = 0
  /\ failed' = 0
  /\ failed_files' = <<>>
  /\ pc' = [i \in Files |-> "queued"]
  /\ extracted_text' = [i \in Files |-> "None"]
  /\ result' = [i \in Files |-> NewResult]
  /\ failure_order' = <<>>
  /\ url_existed' = [i \in Files |-> "unchecked"]
  /\ upload_runs' = [i \in Files |-> 0]
  /\ insert_calls' = [i \in Files |-> 0]
  /\ starts' = [i \in Files |-> 0]
  /\ counted' = [i \in Files |-> 0]
  /\ faults' = 0
  /\ uploaded' = [i \in Files |-> FALSE]
  /\ ocr_calls' = [i \in Files |-> 0]
  /\ ocr_errors' = [i \in Files |-> 0]
  /\ upload_attempt' = [i \in Files |-> 0]
  /\ prev_outcome' = [i \in Files |-> OutcomeOf(result[i])]
  /\ UNCHANGED <<ck_vars, util_vars, store_vars, config_vars>>

\* The state of the chunker while the batch is what runs.
ChunkIdle ==
  /\ ck_variant = "migration"
  /\ ck_pc = "done"
  /\ total_pages = 0
  /\ start_chunk_pages = 0
  /\ page_size = <<>>
  /\ page_idx = 0
  /\ chunk_pages = 0
  /\ gathered_text = <<>>
  /\ plan = <<>>
  /\ shrinks = 0
  /\ shrinks_here = 0
  /\ ocr_raised = <<>>

Init ==
  /\ InitBatch(WorkSets(MaxFiles))
  /\ ChunkIdle /\ RetryIdle /\ CleanIdle /\ OcrIdle /\ AuxIdle

Next ==
  \/ Submit
  \/ \E i \in Files : Start(i)
  \/ \E i \in Files : ExistsCheck(i)
  \/ \E i \in Files : Upload(i)
  \/ \E i \in Files : SubjectSelect(i)
  \/ \E i \in Files : SubjectInsert(i)
  \/ \E i \in Files : Ocr(i)
  \/ \E i \in Files : Insert(i)
  \/ AsCompleted
  \/ Collect
  \/ Report

\* One call of migrate_with_mode.
Spec == Init /\ [][Next]_vars

\* Every call into S3, Supabase or Vision returns, the pool's threads and the
\* main thread keep running: a step that can be taken is taken.
SpecFair == Spec /\ WF_vars(Next)

InitRerun ==
  InitBatch(WorkSets(MaxRerunFiles)) /\ ChunkIdle /\ RetryIdle /\ CleanIdle
  /\ OcrIdle /\ AuxIdle

NextRerun ==
  \/ Submit
  \/ \E i \in Files : Start(i)
  \/ \E i \in Files : ExistsCheck(i)
  \/ \E i \in Files : Upload(i)
  \/ \E i \in Files : SubjectSelect(i)
  \/ \E i \in Files : SubjectInsert(i)
  \/ \E i \in Files : Ocr(i)
  \/ \E i \in Files : Insert(i)
  \/ AsCompleted
  \/ Collect
  \/ Report
  \/ MigrateAgain

\* The script run up to MaxRuns times, one run after the other, over the same
\* tree and the same stores.
SpecRerun == InitRerun /\ [][NextRerun]_vars

\* ======================================================================
\* Properties of the chunker
\* ======================================================================

\* The ranges of s follow one another from page 0 on, each non-empty.
IsChain(s) ==
  \A k \in 1..Len(s) :
    /\ s[k].from < s[k].to
    /\ (k = 1 => s[k].from = 0)
    /\ (k > 1 => s[k].from = s[k - 1].to)

InRange(p, r) == r.from <= p /\ p < r.to

HasKind(kind) == \E k \in 1..Len(plan) : plan[k].kind = kind

\* The ranges sent to OCR or skipped as oversize, without the dropped ones.
ProcessableOrSkipped ==
  SelectSeq(plan, LAMBDA r : r.kind \in {"processable", "skipped"})

OversizePages == {p \in 0..(total_pages - 1) : PageSizeAt(p) > SYNC_LIMIT}

Returned == ck_pc = "done" /\ total_pages >= 1

\* C1 as stated: when the function returns, for totalPages >= 1 and
\* startChunkPages >= 1, the processable and skipped ranges alone are
\* contiguous from page 0, strictly increasing, and end at totalPages.
C1_ProcessableAndSkippedPartition ==
  (Returned /\ start_chunk_pages >= 1) =>
    /\ IsChain(ProcessableOrSkipped)
    /\ ProcessableOrSkipped # <<>>
    /\ Last(ProcessableOrSkipped).to = total_pages

\* C1 amended: for totalPages >= 1 and startChunkPages >= 1, the ranges the
\* loop advances past (processable, skipped as oversize, or dropped because
\* serializing the range raised) are at every moment contiguous from page 0
\* up to page_idx, strictly increasing and non-overlapping, and when the
\* function returns they end at totalPages: they partition [0, totalPages).
C1_AdvancedRangesPartition ==
  (total_pages >= 1 /\ start_chunk_pages >= 1 /\ ck_pc \in {"loop", "done"}) =>
    /\ IsChain(plan)
    /\ (plan = <<>> => page_idx = 0)
    /\ (plan # <<>> => Last(plan).to = page_idx)
    /\ (ck_pc = "done" => plan # <<>> /\ page_idx = total_pages)

C1_Witness ==
  /\ Returned
  /\ start_chunk_pages >= 2
  /\ total_pages >= 3
  /\ HasKind("processable")
  /\ HasKind("skipped")
  /\ HasKind("dropped")

\* C8: the loop terminates for every totalPages, every startChunkPages
\* (values <= 0 included) and every assignment of page sizes: chunk_pages
\* never drops below 1, every range emitted, skipped or dropped moves the
\* start page strictly forward, every other iteration strictly shrinks the
\* window, and the function eventually leaves the loop.
C8_Terminates ==
  /\ [](ck_pc = "loop" => chunk_pages >= 1)
  /\ [][plan' # plan => page_idx' > page_idx]_vars
  /\ [][(ck_pc = "loop" /\ ck_pc' = "loop") =>
          \/ page_idx' > page_idx
          \/ page_idx' = page_idx /\ chunk_pages' < chunk_pages]_vars
  /\ <>(ck_pc \in {"done", "unreadable", "raised"})

C8_Witness ==
  /\ Returned
  /\ start_chunk_pages <= 0
  /\ total_pages >= 3
  /\ HasKind("processable")
  /\ HasKind("skipped")
  /\ HasKind("dropped")

\* C9 as stated: when the function returns, every page whose own size
\* exceeds the limit has been emitted as a skipped single-page range, and is
\* in no range sent to OCR.
C9_OversizeAlwaysSkipped ==
  Returned =>
    \A p \in OversizePages :
      /\ \E k \in 1..Len(plan) : plan[k] = Range(p, p + 1, "skipped")
      /\ \A k \in 1..Len(plan) :
           plan[k].kind = "processable" => ~InRange(p, plan[k])

\* C9 amended: a page whose own size exceeds the limit is never in a range
\* sent to OCR, whatever startChunkPages and its position; when the function
\* returns it has been emitted as a skipped single-page range, unless
\* serializing a candidate range that held it raised, in which case it was
\* dropped with that range.
C9_OversizeNeverProcessed ==
  /\ \A p \in OversizePages :
       \A k \in 1..Len(plan) :
         plan[k].kind = "processable" => ~InRange(p, plan[k])
  /\ Returned =>
       \A p \in OversizePages :
         \/ \E k \in 1..Len(plan) : plan[k] = Range(p, p + 1, "skipped")
         \/ \E k \in 1..Len(plan) :
              plan[k].kind = "dropped" /\ InRange(p, plan[k])

C9_Witness ==
  /\ Returned
  /\ start_chunk_pages >= 3
  /\ \E p \in OversizePages :
       /\ p >= 1
       /\ p + 1 < total_pages
       /\ \E k \in 1..Len(plan) : plan[k] = Range(p, p + 1, "skipped")
  /\ HasKind("processable")

\* C10: every range passed to the OCR call has serialized size at most
\* SYNC_LIMIT, and only a range above the limit is skipped: a range of
\* exactly the limit is processable.
C10_ProcessableWithinLimit ==
  \A k \in 1..Len(plan) :
    /\ plan[k].kind = "processable" =>
         ChunkSize(plan[k].from, plan[k].to) <= SYNC_LIMIT
    /\ plan[k].kind = "skipped" =>
         ChunkSize(plan[k].from, plan[k].to) > SYNC_LIMIT

C10_Witness ==
  \E k \in 1..Len(plan) :
    /\ plan[k].kind = "processable"
    /\ plan[k].to - plan[k].from >= 2
    /\ ChunkSize(plan[k].from, plan[k].to) = SYNC_LIMIT

\* ======================================================================
\* retry_loop, step by step
\* ======================================================================

MatchesAll(o) == o # "ok"

\* except allowed_exceptions: whether the error of an invocation is caught.
Matches(o) == o = "retryable"

\* A call of retry_loop: func will behave as `outcomes` says, invocation by
\* invocation; attempt = 0 (delay is not modelled, only the sleeps are counted).
RetryInputs ==
  /\ rl_max_retries \in 0..MaxRetryArg
  /\ rl_outcomes \in [1..(rl_max_retries + 1) -> {"ok", "retryable", "other"}]
  /\ rl_swallow \in BOOLEAN
  /\ rl_pc = "call"
  /\ rl_attempt = 0
  /\ calls = 0
  /\ sleeps = 0
  /\ raised_call = 0

\* return func(...): the invocation succeeds.
RetryReturn ==
  /\ rl_pc = "call"
  /\ rl_outcomes[calls + 1] = "ok"
  /\ calls' = calls + 1
  /\ rl_pc' = "returned"
  /\ UNCHANGED <<ck_vars, batch_vars, clean_vars, ocr_vars, aux_vars, rl_outcomes, rl_max_retries, rl_swallow,
                 rl_attempt, sleeps, raised_call>>

\* func raises an error that `except allowed_exceptions` does not catch: it
\* leaves retry_loop at once.
RetryPropagate ==
  /\ rl_pc = "call"
  /\ rl_outcomes[calls + 1] # "ok"
  /\ ~Matches(rl_outcomes[calls + 1])
  /\ calls' = calls + 1
  /\ raised_call' = calls + 1
  /\ rl_pc' = "raised"
  /\ UNCHANGED <<ck_vars, batch_vars, clean_vars, ocr_vars, aux_vars, rl_outcomes, rl_max_retries, rl_swallow,
                 rl_attempt, sleeps>>

\* func raises an error that is caught: attempt += 1
RetryCatch ==
  /\ rl_pc = "call"
  /\ rl_outcomes[calls + 1] # "ok"
  /\ Matches(rl_outcomes[calls + 1])
  /\ calls' = calls + 1
  /\ rl_attempt' = rl_attempt + 1
  /\ rl_pc' = "caught"
  /\ UNCHANGED <<ck_vars, batch_vars, clean_vars, ocr_vars, aux_vars, rl_outcomes, rl_max_retries, rl_swallow,
                 sleeps, raised_call>>

\* RetryExhausted, mutated to sleep once more before it gives up.
RetryExhaustedAfterSleep ==
  /\ rl_pc = "caught"
  /\ Exhausted(rl_attempt, rl_max_retries)
  /\ sleeps' = sleeps + 1
  /\ rl_pc' = IF rl_swallow THEN "None" ELSE "raised"
  /\ raised_call' = IF rl_swallow THEN raised_call ELSE calls
  /\ UNCHANGED <<ck_vars, batch_vars, clean_vars, ocr_vars, aux_vars,
                 rl_outcomes, rl_max_retries, rl_swallow, rl_attempt, calls>>

\* attempt > max_retries: return None if swallow, else raise (the error of
\* the invocation that has just failed).
RetryExhausted ==
  /\ rl_pc = "caught"
  /\ Exhausted(rl_attempt, rl_max_retries)
  /\ rl_pc' = IF rl_swallow THEN "None" ELSE "raised"
  /\ raised_call' = IF rl_swallow THEN raised_call ELSE calls
  /\ UNCHANGED <<ck_vars, batch_vars, clean_vars, ocr_vars, aux_vars, rl_outcomes, rl_max_retries, rl_swallow,
                 rl_attempt, calls, sleeps>>

\* time.sleep(delay); delay *= backoff; and round the loop again.
RetrySleep ==
  /\ rl_pc = "caught"
  /\ ~Exhausted(rl_attempt, rl_max_retries)
  /\ sleeps' = sleeps + 1
  /\ rl_pc' = "call"
  /\ UNCHANGED <<ck_vars, batch_vars, clean_vars, ocr_vars, aux_vars, rl_outcomes, rl_max_retries, rl_swallow,
                 rl_attempt, calls, raised_call>>

InitRetry ==
  RetryInputs /\ ChunkIdle /\ BatchIdle /\ CleanIdle /\ OcrIdle /\ AuxIdle

NextRetry ==
  \/ RetryReturn
  \/ RetryPropagate
  \/ RetryCatch
  \/ RetryExhausted
  \/ RetrySleep

SpecRetry == InitRetry /\ [][NextRetry]_vars

\* ======================================================================
\* clean_ocr_text
\* ======================================================================

\* Optional[str]: a text is a sequence of one-character strings; None is the
\* value below, which is no text.
NoneText == <<"None">>

\* ord(char) < 32 and char not in '\n\t\r'; the form feed stands for them.
ControlChars == {"\f"}

\* The characters str.split() splits on, among those of the alphabet.
IsSpace(c) == c \in {" ", "\t", "\n"}

\* ''.join(char for char in raw_text if ord(char) >= 32 or char in '\n\t\r')
RECURSIVE remove_control(_)
remove_control(t) ==
  IF t = <<>> THEN <<>>
  ELSE IF Head(t) \in ControlChars THEN remove_control(Tail(t))
  ELSE <<Head(t)>> \o remove_control(Tail(t))

\* The length of the run of non-whitespace characters t starts with.
RECURSIVE WordLen(_)
WordLen(t) ==
  IF t = <<>> \/ IsSpace(Head(t)) THEN 0 ELSE 1 + WordLen(Tail(t))

\* text.split(): the maximal runs of non-whitespace characters, in order.
RECURSIVE split(_)
split(t) ==
  IF t = <<>> THEN <<>>
  ELSE IF IsSpace(Head(t)) THEN split(Tail(t))
  ELSE LET n == WordLen(t)
       IN <<SubSeq(t, 1, n)>> \o split(SubSeq(t, n + 1, Len(t)))

\* sep.join(words)
RECURSIVE join(_, _)
join(sep, words) ==
  IF words = <<>> THEN <<>>
  ELSE IF Len(words) = 1 THEN words[1]
  ELSE words[1] \o sep \o join(sep, Tail(words))

\* old in text
Contains(t, old) ==
  \E k \in 1..(Len(t) - Len(old) + 1) : SubSeq(t, k, k + Len(old) - 1) = old

\* text.replace(old, new): the occurrences of old, left to right, without
\* overlap.
RECURSIVE replace(_, _, _)
replace(t, old, new) ==
  IF Len(t) < Len(old) THEN t
  ELSE IF SubSeq(t, 1, Len(old)) = old
    THEN new \o replace(SubSeq(t, Len(old) + 1, Len(t)), old, new)
  ELSE <<Head(t)>> \o replace(Tail(t), old, new)

\* while '\n\n\n' in text: text = text.replace('\n\n\n', '\n\n')
RECURSIVE collapse_newlines(_)
collapse_newlines(t) ==
  IF Contains(t, <<"\n", "\n", "\n">>)
    THEN collapse_newlines(replace(t, <<"\n", "\n", "\n">>, <<"\n", "\n">>))
    ELSE t

RECURSIVE lstrip(_)
lstrip(t) == IF t # <<>> /\ IsSpace(Head(t)) THEN lstrip(Tail(t)) ELSE t

RECURSIVE rstrip(_)
rstrip(t) ==
  IF t # <<>> /\ IsSpace(t[Len(t)]) THEN rstrip(SubSeq(t, 1, Len(t) - 1)) ELSE t

\* text.strip()
strip(t) == rstrip(lstrip(t))

AlmostLongEnough(t) ==
  IF Len(t) >= OCR_TEXT_MIN_LENGTH - 1 THEN t ELSE NoneText

\* return text if len(text) >= OCR_TEXT_MIN_LENGTH else None
LongEnough(t) == IF Len(t) >= OCR_TEXT_MIN_LENGTH THEN t ELSE NoneText

clean_ocr_text_filter_last(raw) ==
  IF raw = NoneText \/ raw = <<>> THEN NoneText
  ELSE LongEnough(remove_control(strip(collapse_newlines(join(<<" ">>, split(raw))))))

\* clean_ocr_text(raw_text), statement by statement.
clean_ocr_text(raw) ==
  IF raw = NoneText \/ raw = <<>> THEN NoneText
  ELSE LongEnough(strip(collapse_newlines(join(<<" ">>, split(remove_control(raw))))))

\* The pieces the input texts are made of: a word of letters, a letter, a
\* space, a tab, a newline, a control character.
Pieces == { <<"a", "b", "c", "d">>, <<"e">>, <<" ">>, <<"\t">>, <<"\n">>, <<"\f">> }

RECURSIVE Concat(_)
Concat(ps) == IF ps = <<>> THEN <<>> ELSE Head(ps) \o Concat(Tail(ps))

\* The arguments clean_ocr_text is given: None and the texts of up to
\* MaxPieces pieces, the empty text among them.
CleanInputs ==
  /\ raw_text \in {NoneText} \cup
       UNION { {Concat(ps) : ps \in [1..n -> Pieces]} : n \in 0..MaxPieces }
  /\ cl_pc = "input"
  /\ cleaned = NoneText
  /\ cleaned_again = NoneText

\* cleaned = clean_ocr_text(raw_text)
CleanOnce ==
  /\ cl_pc = "input"
  /\ cleaned' = clean_ocr_text(raw_text)
  /\ cl_pc' = "once"
  /\ UNCHANGED <<ck_vars, batch_vars, retry_vars, ocr_vars, aux_vars, raw_text, cleaned_again>>

\* cleaned_again = clean_ocr_text(cleaned)
CleanAgain ==
  /\ cl_pc = "once"
  /\ cleaned_again' = clean_ocr_text(cleaned)
  /\ cl_pc' = "twice"
  /\ UNCHANGED <<ck_vars, batch_vars, retry_vars, ocr_vars, aux_vars, raw_text, cleaned>>

InitClean ==
  CleanInputs /\ ChunkIdle /\ BatchIdle /\ RetryIdle /\ OcrIdle /\ AuxIdle

NextClean == CleanOnce \/ CleanAgain

SpecClean == InitClean /\ [][NextClean]_vars

\* ======================================================================
\* Properties of the batch
\* ======================================================================

Finished(i) == pc[i] = "finished"

Succeeded(i) == Finished(i) /\ result[i].success

SkippedOutcome(i) ==
  /\ Finished(i)
  /\ ~result[i].success
  /\ result[i].reason \in {"already_exists", "already_exists_duplicate"}

FailedOutcome(i) == Finished(i) /\ ~result[i].success /\ ~SkippedOutcome(i)

\* process_file returned already_exists straight from the existence check:
\* it is at its end, and made no upload call and no insert call.
SkippedAsExisting(i) ==
  /\ Finished(i)
  /\ result[i] = [success |-> FALSE, reason |-> "already_exists"]
  /\ upload_runs[i] = 0
  /\ insert_calls[i] = 0

SameUrl(i, j) == FileUrl(all_files[i]) = FileUrl(all_files[j])

RowsOf(table, url) == {r \in table : r.s3_url = url}

\* C2 as stated: a work item whose storage URL is already in the record store
\* when process_file checks it makes no upload and no insert and ends SKIPPED
\* with reason already_exists, in every mode.
C2_ExistingUrlAlwaysSkipped ==
  \A i \in Files : url_existed[i] \in {"found", "missed"} => SkippedAsExisting(i)

\* C2 (amended): a work item whose existence query answers and finds its
\* storage URL in the record store goes from the check straight to its end:
\* no upload call, no subject step, no insert call, outcome SKIPPED with
\* reason already_exists, in every mode.
C2_FoundUrlSkipped ==
  \A i \in Files : url_existed[i] = "found" => SkippedAsExisting(i)

C2_Witness ==
  /\ m_pc = "done"
  /\ \E i, j \in Files :
       /\ url_existed[i] = "found"
       /\ SkippedAsExisting(i)
       /\ Succeeded(j)

\* C3: when two process_file runs have the same storage key, neither
\* existence check sees a row, and both reach the insert without a transient
\* insert error, exactly one of them succeeds and the other ends SKIPPED;
\* neither is a failure.
C3_RaceLoserSkipped ==
  \A i, j \in Files :
    ( /\ i # j
      /\ SameUrl(i, j)
      /\ url_existed[i] = "absent" /\ url_existed[j] = "absent"
      /\ Finished(i) /\ Finished(j)
      /\ insert_calls[i] = 1 /\ insert_calls[j] = 1
      /\ result[i].reason # "insert failed"
      /\ result[j].reason # "insert failed" )
    => /\ Succeeded(i) # Succeeded(j)
       /\ Succeeded(i) => SkippedOutcome(j)
       /\ Succeeded(j) => SkippedOutcome(i)
       /\ ~FailedOutcome(i) /\ ~FailedOutcome(j)

HitDuplicate(i) == Finished(i) /\ insert_calls[i] = 1 /\ result[i] = DuplicateResult

\* C5: when migrate_with_mode has logged its report, success + skipped +
\* failed is the number of work items; success counts the items that were
\* uploaded and inserted (in a dry run, the ones that would have been),
\* skipped the items found existing or answered with a duplicate key, and
\* failed the rest.
C5_ReportCountsOutcomes ==
  m_pc = "done" =>
    /\ success + skipped + failed = NumFiles
    /\ success = Cardinality({i \in Files : Succeeded(i)})
    /\ ~DRY_RUN =>
         \A i \in Files :
           Succeeded(i) => /\ upload_runs[i] = 1
                           /\ FileKey(all_files[i]) \in bucket
                           /\ \E r \in Table : r.id = <<run, i>>
    /\ skipped = Cardinality({i \in Files : url_existed[i] = "found" \/ HitDuplicate(i)})
    /\ failed = NumFiles - (success + skipped)

\* C6: under fair scheduling the batch reaches its report whatever failed on
\* the way; at the report every work item has been started once, has a
\* terminal outcome and has been counted once; no item is counted twice, and
\* no step changes the outcome of an item that has finished.
C6_EveryItemCountedOnce ==
  /\ <>(m_pc = "done")
  /\ [](m_pc = "done" =>
          /\ completed = NumFiles
          /\ \A i \in Files : Finished(i) /\ starts[i] = 1 /\ counted[i] = 1)
  /\ [](\A i \in Files : counted[i] <= 1)
  /\ [][\A i \in Files : Finished(i) => (pc'[i] = "finished" /\ result'[i] = result[i])]_vars

\* The report is reached with an item that failed (its upload, its file or
\* its insert), an item that was skipped and an item that succeeded.
C6_Witness ==
  /\ m_pc = "done"
  /\ \E i, j, k \in Files :
       /\ FailedOutcome(i)
       /\ \/ upload_runs[i] = 1 /\ insert_calls[i] = 0
          \/ url_existed[i] = "unchecked"
          \/ result[i].reason = "insert failed"
       /\ SkippedOutcome(j)
       /\ Succeeded(k)
       /\ counted[i] = 1 /\ counted[j] = 1 /\ counted[k] = 1

\* C7: at every instant of migrate_with_mode at most max_workers process_file
\* runs are in flight, and every work item is submitted once: the items
\* submitted are the first `submitted` ones, all of them once submission is
\* over, and none is started before it is submitted or started twice.
C7_PoolBounded ==
  /\ Cardinality(Running) <= max_workers
  /\ submitted \in 0..NumFiles
  /\ m_pc # "submit" => submitted = NumFiles
  /\ \A i \in Files :
       /\ starts[i] <= 1
       /\ pc[i] # "queued" => (i <= submitted /\ starts[i] = 1)

C7_Witness ==
  /\ max_workers = MAX_WORKERS
  /\ Cardinality(Running) = max_workers
  /\ \E i \in Files : pc[i] = "queued" /\ i <= submitted

\* ======================================================================
\* Properties of retry_loop
\* ======================================================================

RetryEnded == rl_pc \in {"returned", "raised", "None"}

AllRetryable == \A k \in DOMAIN rl_outcomes : rl_outcomes[k] = "retryable"

\* The first invocation that does not fail with a caught error, if any.
HasFirstOther(k) ==
  /\ k \in DOMAIN rl_outcomes
  /\ rl_outcomes[k] # "retryable"
  /\ \A j \in 1..(k - 1) : rl_outcomes[j] = "retryable"

\* C11: when every invocation of func fails with an error that
\* allowed_exceptions matches (max_retries >= 0), retry_loop has invoked func
\* exactly max_retries + 1 times, with a sleep between two invocations, when
\* it ends; it ends by raising the error of the last invocation, or by
\* returning None when swallow is set.
C11_ExhaustedAfterMaxRetriesPlusOne ==
  /\ AllRetryable => calls <= rl_max_retries + 1
  /\ (RetryEnded /\ AllRetryable) =>
       /\ calls = rl_max_retries + 1
       /\ sleeps = rl_max_retries
       /\ rl_pc = (IF rl_swallow THEN "None" ELSE "raised")
       /\ raised_call = (IF rl_swallow THEN 0 ELSE rl_max_retries + 1)

C11_Witness ==
  /\ AllRetryable
  /\ rl_pc = "raised"
  /\ rl_max_retries >= 2
  /\ calls = rl_max_retries + 1

\* C12: when the first invocation of func that does not fail with a matching
\* error fails with an error that allowed_exceptions does not match, that
\* error leaves retry_loop at once: func is not invoked again and the loop
\* does not sleep after it, whatever is left of max_retries and whatever
\* swallow is.
C12_NonMatchingPropagates ==
  \A k \in DOMAIN rl_outcomes :
    (HasFirstOther(k) /\ rl_outcomes[k] = "other") =>
      /\ calls <= k
      /\ sleeps <= k - 1
      /\ RetryEnded => /\ rl_pc = "raised"
                       /\ calls = k
                       /\ sleeps = k - 1
                       /\ raised_call = k

C12_Witness ==
  /\ rl_pc = "raised"
  /\ rl_swallow
  /\ rl_max_retries = MaxRetryArg
  /\ HasFirstOther(2)
  /\ rl_outcomes[2] = "other"
  /\ calls = 2

\* ======================================================================
\* Properties of process_file: what follows an upload
\* ======================================================================

AfterUpload == {"subject_select", "subject_insert", "ocr", "insert"}

\* The upload of item i ran under retry_loop and did not return.
UploadExhausted(i) == upload_runs[i] = 1 /\ ~uploaded[i]

\* C13: a work item whose upload is exhausted ends as a failure with no OCR
\* call and no record insert, and it never stands at the subject, OCR or
\* insert step; an OCR call or an insert is made only for an item whose
\* upload has returned.
C13_NothingAfterFailedUpload ==
  \A i \in Files :
    /\ UploadExhausted(i) =>
         /\ FailedOutcome(i)
         /\ ocr_calls[i] = 0
         /\ insert_calls[i] = 0
    /\ pc[i] \in AfterUpload => uploaded[i]
    /\ (ocr_calls[i] > 0 \/ insert_calls[i] > 0) => uploaded[i]

C13_Witness ==
  /\ m_pc = "done"
  /\ mode = "notes_with_ocr"
  /\ \E i, j \in Files :
       /\ UploadExhausted(i)
       /\ FailedOutcome(i)
       /\ uploaded[j] /\ ocr_calls[j] = 1 /\ insert_calls[j] = 1


\* ======================================================================
\* Properties of process_file: an error of the OCR service
\* ======================================================================

\* The OCR call of item i raised in this run.
OcrErrored(i) == ocr_errors[i] > 0

\* C14: in OCR-enabled mode, when the upstream OCR call errors for an item,
\* the error reaches process_file and the item ends as failed (not
\* successful, not skipped) with the file uploaded and no record inserted:
\* the insert is never attempted and no row carries the item's id.
C14_OcrErrorFailsItem ==
  \A i \in Files :
    OcrErrored(i) =>
      /\ uploaded[i]
      /\ insert_calls[i] = 0
      /\ Row(i) \notin notes
      /\ Finished(i) => FailedOutcome(i)

\* What the code does instead: the item goes on to the insert with no text,
\* and nothing in its result tells it from an item without text.
C14_OcrErrorInsertsWithoutText ==
  \A i \in Files :
    OcrErrored(i) =>
      /\ mode = "notes_with_ocr"
      /\ uploaded[i]
      /\ extracted_text[i] = "None"
      /\ pc[i] \in {"insert", "finished"}
      /\ Succeeded(i) => /\ result[i].reason = ""
                         /\ \E r \in notes : /\ r.id = <<run, i>>
                                              /\ r.ocr_text = "None"
                                              /\ ~r.is_ocr_done

C14_Witness ==
  \E i \in Files : OcrErrored(i) /\ Succeeded(i) /\ Row(i) \in notes

\* ======================================================================
\* Properties of process_file: a duplicate key on insert
\* ======================================================================

DuplicateHits == {i \in Files : HitDuplicate(i)}

\* C15: in every mode, an item whose insert the store answered with a
\* duplicate-key error ends SKIPPED and adds no entry to the failure
\* details; at the report every such item is counted in skipped and none of
\* them in failed.
C15_DuplicateKeyIsSkipped ==
  /\ \A i \in Files :
       HitDuplicate(i) =>
         /\ SkippedOutcome(i)
         /\ \A k \in 1..Len(failed_files) :
              failed_files[k].reason # DuplicateResult.reason
  /\ m_pc = "done" =>
       /\ skipped >= Cardinality(DuplicateHits)
       /\ failed <= NumFiles - Cardinality(DuplicateHits)

\* The same holds where insert_note_record does the insert.
C15_DuplicateKeyIsSkippedInNotes == mode # "books" => C15_DuplicateKeyIsSkipped

C15_Witness ==
  /\ m_pc = "done"
  /\ mode # "books"
  /\ \E i \in Files : HitDuplicate(i) /\ counted[i] = 1

\* ======================================================================
\* Properties of process_file: how often it uploads and inserts
\* ======================================================================

SucceededBefore(i) == run >= 2 /\ prev_outcome[i] = "success"

\* The row the run before this one inserted for item i is the only row under
\* the item's URL.
RowOfRunBeforeKept(i) ==
  \E r \in Table :
    /\ r.id = <<run - 1, i>>
    /\ RowsOf(Table, FileUrl(all_files[i])) = {r}

\* C17 as stated: in a second run over the same work set, every item that
\* succeeded in the first run ends SKIPPED with no upload and no insert, and
\* the rows under its URL are those the first run left.
C17_RerunSkipsSucceeded ==
  \A i \in Files :
    (SucceededBefore(i) /\ Finished(i)) =>
      /\ SkippedOutcome(i)
      /\ upload_runs[i] = 0
      /\ insert_calls[i] = 0
      /\ RowOfRunBeforeKept(i)

\* C17, amended: outside a dry run, an item that succeeded in the run before
\* has its row in the store all through this run, the only one under its
\* URL; its existence check meets that row; and when the existence query
\* answers, the item ends SKIPPED as already_exists with no upload and no
\* insert. Before its check has answered it has uploaded and inserted
\* nothing either.
C17_RerunSkipsFoundSucceeded ==
  \A i \in Files :
    (SucceededBefore(i) /\ ~DRY_RUN) =>
      /\ RowOfRunBeforeKept(i)
      /\ url_existed[i] \in {"unchecked", "found", "missed"}
      /\ url_existed[i] = "unchecked" => upload_runs[i] = 0 /\ insert_calls[i] = 0
      /\ url_existed[i] = "found" => SkippedAsExisting(i)

\* A second run has reported: the item that succeeded in the first run was
\* skipped at its check, and so was the item with the same URL that the
\* first run had not inserted.
C17_Witness ==
  /\ run = 2
  /\ m_pc = "done"
  /\ ~DRY_RUN
  /\ \E i, j \in Files :
       /\ i # j
       /\ SameUrl(i, j)
       /\ SucceededBefore(i) /\ url_existed[i] = "found" /\ SkippedAsExisting(i)
       /\ ~SucceededBefore(j) /\ SkippedAsExisting(j)
       /\ counted[i] = 1 /\ counted[j] = 1

\* ======================================================================
\* Properties of a partial migration: uploaded, not inserted
\* ======================================================================

\* process_file uploaded the file of item i and its insert call failed.
UploadedNotInserted(i) ==
  /\ Finished(i)
  /\ uploaded[i]
  /\ result[i].reason = "insert failed"

\* The same, in the run before this one.
UploadedNotInsertedBefore(i) == run >= 2 /\ prev_outcome[i] = "insert failed"

\* No call of this run has failed so far.
FaultFree == faults = 0

SameSubject(i, j) ==
  LET p == all_files[i].path_parts
      q == all_files[j].path_parts
  IN /\ p[1] = q[1]
     /\ YearComponent(p) = YearComponent(q)
     /\ p[3] = q[3]

SubjectIdOf(i) == build_subject_id(all_files[i].path_parts)

\* C19: two work items with the same branch, normalized period and subject
\* derive the same subject id; in every state the subjects table holds at
\* most one row per id; and the step that inserts the subject row, whatever
\* the store answers (inserted, already there, call failed), takes the item
\* on to its next stage and leaves its result and the counters of failures
\* alone.
C19_SubjectRaceConverges ==
  /\ [](\A i, j \in Files : SameSubject(i, j) => SubjectIdOf(i) = SubjectIdOf(j))
  /\ [](\A r1, r2 \in subjects : r1.id = r2.id => r1 = r2)
  /\ [][\A i \in Files :
          (pc[i] = "subject_insert" /\ pc'[i] # "subject_insert") =>
            /\ pc'[i] = AfterSubject
            /\ result'[i] = NewResult
            /\ failed' = failed
            /\ failed_files' = failed_files]_vars

\* The race, about to be lost: worker i has selected and seen no row (no call
\* has failed), worker j has inserted its row since, and the row i is about
\* to insert differs from it (Sem1, Yr01) under the same id.
C19_Witness ==
  \E i, j \in Files :
    /\ i # j
    /\ SameSubject(i, j)
    /\ faults = 0
    /\ pc[i] = "subject_insert"
    /\ pc[j] \in {"ocr", "insert", "finished"}
    /\ subjects = {SubjectRow(all_files[j].path_parts)}
    /\ SubjectRow(all_files[i].path_parts) # SubjectRow(all_files[j].path_parts)

\* ======================================================================
\* Properties of clean_ocr_text
\* ======================================================================

\* C20: clean_ocr_text applied to its own result returns that result, for
\* every text of letters, spaces, tabs, newlines and control characters, for
\* the empty text and for None; this includes the results that are None.
C20_CleanIdempotent ==
  cl_pc = "twice" => cleaned_again = cleaned

\* Cleaning changed the text (a control character inside a word, a newline
\* between words) and kept it, just long enough, and the second cleaning
\* has run.
C20_Witness ==
  /\ cl_pc = "twice"
  /\ cleaned # NoneText
  /\ cleaned # raw_text
  /\ Contains(raw_text, <<"d", "\f", "a">>)
  /\ Contains(raw_text, <<"\n">>)
  /\ Len(cleaned) = OCR_TEXT_MIN_LENGTH

\* The first cleaning returned None for a text that was not empty, and the
\* second cleaning has run.
C20_WitnessNone ==
  /\ cl_pc = "twice"
  /\ cleaned = NoneText
  /\ raw_text # NoneText
  /\ Len(raw_text) >= OCR_TEXT_MIN_LENGTH

\* ======================================================================
\* Properties of clean_ocr_text: the length threshold and the newlines
\* ======================================================================

\* clean_ocr_text has returned (once, or twice).
CleanReturned == cl_pc \in {"once", "twice"}

\* The text the length test of line 273 sees for the argument raw.
BeforeLengthTest(raw) ==
  strip(collapse_newlines(join(<<" ">>, split(remove_control(raw)))))

\* C21: whatever the argument (None, the empty text, any text), what
\* clean_ocr_text returns is None or a text of at least OCR_TEXT_MIN_LENGTH
\* characters, never a shorter text; the same holds when it is applied to
\* its own result.
C21_NoneOrLongEnough ==
  /\ CleanReturned =>
       (cleaned = NoneText \/ Len(cleaned) >= OCR_TEXT_MIN_LENGTH)
  /\ cl_pc = "twice" =>
       (cleaned_again = NoneText \/ Len(cleaned_again) >= OCR_TEXT_MIN_LENGTH)

\* A text whose cleaned form is one character short of the threshold (the
\* argument itself is longer) has been answered with None.
C21_Witness ==
  /\ cl_pc = "once"
  /\ raw_text # NoneText
  /\ Len(raw_text) >= OCR_TEXT_MIN_LENGTH
  /\ Len(BeforeLengthTest(raw_text)) = OCR_TEXT_MIN_LENGTH - 1
  /\ cleaned = NoneText

IsText(c) == ~IsSpace(c) /\ c \notin ControlChars

\* The argument holds two pieces of text with a blank line (two newlines or
\* more) somewhere between them.
HasParagraphBreak(raw) ==
  \E k \in 1..(Len(raw) - 1) :
    /\ raw[k] = "\n" /\ raw[k + 1] = "\n"
    /\ \E a \in 1..(k - 1) : IsText(raw[a])
    /\ \E b \in (k + 2)..Len(raw) : IsText(raw[b])

\* C22: the text clean_ocr_text returns has no run of three newlines, and a
\* blank line between two pieces of text of the argument is a blank line
\* (two newlines) in it.
C22_ParagraphBreaksKept ==
  (CleanReturned /\ raw_text # NoneText /\ cleaned # NoneText) =>
    /\ ~Contains(cleaned, <<"\n", "\n", "\n">>)
    /\ HasParagraphBreak(raw_text) => Contains(cleaned, <<"\n", "\n">>)

\* What the code does instead: ' '.join(text.split()) has replaced every
\* newline by then, so the text returned holds no newline at all and the
\* loop of lines 267-268 never finds one.
C22_NoNewlineSurvives ==
  (CleanReturned /\ cleaned # NoneText) =>
    /\ ~Contains(cleaned, <<"\n">>)
    /\ collapse_newlines(join(<<" ">>, split(remove_control(raw_text))))
         = join(<<" ">>, split(remove_control(raw_text)))

C22_Witness ==
  /\ cl_pc = "once"
  /\ cleaned # NoneText
  /\ HasParagraphBreak(raw_text)

\* ======================================================================
\* The OCR stage of process_file: extract_text_sync and the chunker
\* ======================================================================

\* Extensions of VALID_EXTENSIONS: the one routed as a PDF and two others.
Extensions == {"pdf", "jpg", "png"}

\* os.path.getsize: under, at and over SYNC_LIMIT.
FileSizes == {SYNC_LIMIT - 1, SYNC_LIMIT, SYNC_LIMIT + 1}

\* A MIME type is its type and its subtype: "image/jpeg" is <<"image", "jpeg">>.
MimeTypes ==
  { <<"image", "jpeg">>, <<"image", "png">>, <<"application", "pdf">>,
    <<"text", "plain">>, <<"application", "msword">>, <<"imagex", "png">> }

\* mime = 'application/pdf' if ext == 'pdf'
\*        else f'image/{ext if ext != "jpg" else "jpeg"}'
MimeOf(e) ==
  IF e = "pdf" THEN <<"application", "pdf">>
  ELSE <<"image", IF e # "jpg" THEN e ELSE "jpeg">>

IsImageLoose(m) == m[1] \in {"image", "imagex"}

\* mime_type.startswith("image/")
IsImage(m) == m[1] = "image"

\* mime_type == "application/pdf"
IsPdf(m) == m = <<"application", "pdf">>

ChunkedNever(e, size) == FALSE

\* if ext == 'pdf' and file_size > SYNC_LIMIT
Chunked(e, size) == e = "pdf" /\ size > SYNC_LIMIT

\* The texts a Vision response may carry: empty, one character short of the
\* threshold once cleaned, exactly at it, and longer with a paragraph break
\* and a control character.
RawTexts ==
  { <<>>,
    <<"a", "b", "c", "d", " ", " ", "a", "b", "c", "d">>,
    <<"a", "b", "c", "d", " ", "a", "b", "c", "d", "e">>,
    <<"a", "b", "c", "d", "\n", "\n", "a", "b", "c", "d", "e", "\f">> }

\* symbol.confidence of the symbols of a response, in hundredths.
Confidences == {0, 10, 30, 50}

ScoreSeqs == UNION { [1..n -> Confidences] : n \in 0..2 }

RECURSIVE Sum(_)
Sum(q) == IF q = <<>> THEN 0 ELSE Head(q) + Sum(Tail(q))

\* confidence_scores: the confidences above 0, and
\* avg_confidence < OCR_MIN_CONFIDENCE with avg_confidence =
\* sum(confidence_scores) / len(confidence_scores) if confidence_scores else 0
IsLowConfidence(symbols) ==
  LET confidence_scores == SelectSeq(symbols, LAMBDA c : c > 0)
  IN IF confidence_scores = <<>>
       THEN 0 < OCR_MIN_CONFIDENCE
       ELSE Sum(confidence_scores) < OCR_MIN_CONFIDENCE * Len(confidence_scores)

\* What a Vision call does: it raises (the client is missing, the API call
\* errors, the response carries an error), or it answers without a text
\* annotation, or with one.
ImageResponses ==
  { [kind |-> "error"], [kind |-> "empty"] } \cup
  { [kind |-> "annotation", text |-> t, symbols |-> q] :
      t \in RawTexts, q \in ScoreSeqs }

\* A page of a batch_annotate_files response: its text, or None when the
\* page has no text annotation.
PdfResponses ==
  { [kind |-> "error"] } \cup
  { [kind |-> "pages", pages |-> ps] :
      ps \in UNION { [1..n -> RawTexts \cup {NoneText}] : n \in 0..2 } }

StoredIfConfident(t, symbols) ==
  IF IsLowConfidence(symbols) THEN NoneText ELSE clean_ocr_text(t)

\* cleaned = clean_ocr_text(text); return cleaned: the confidence is logged
\* and decides nothing.
CleanedWhateverConfidence(t, symbols) == clean_ocr_text(t)

\* extract_text_from_image_bytes: what it returns, whether it raised and
\* whether it logged the low-confidence warning.
extract_text_from_image_bytes(resp) ==
  IF resp.kind = "error"
    THEN [value |-> NoneText, raised |-> TRUE, warned |-> FALSE]
  ELSE IF resp.kind = "empty"
    THEN [value |-> NoneText, raised |-> FALSE, warned |-> FALSE]
  ELSE [value |-> CleanedWhateverConfidence(resp.text, resp.symbols),
        raised |-> FALSE,
        warned |-> IsLowConfidence(resp.symbols)]

\* full_text += text + "\n\n" for every page with a text annotation.
RECURSIVE full_text(_)
full_text(pages) ==
  IF pages = <<>> THEN <<>>
  ELSE (IF Head(pages) = NoneText THEN <<>> ELSE Head(pages) \o <<"\n", "\n">>)
       \o full_text(Tail(pages))

\* extract_text_from_pdf_bytes: no use of the confidence but in the log.
extract_text_from_pdf_bytes(resp) ==
  IF resp.kind = "error"
    THEN [value |-> NoneText, raised |-> TRUE, warned |-> FALSE]
    ELSE [value |-> clean_ocr_text(full_text(resp.pages)),
          raised |-> FALSE, warned |-> FALSE]

\* extract_text_sync with the outcome of the extraction it dispatches to, if
\* any: every error is caught and answered with None; for a MIME type that
\* is neither image/* nor application/pdf nothing is called.
SyncResult(m, extraction) ==
  IF IsImage(m) \/ IsPdf(m)
    THEN [value |-> IF extraction.raised THEN NoneText ELSE extraction.value,
          raised |-> FALSE, requests |-> 1, warned |-> extraction.warned]
    ELSE [value |-> NoneText, raised |-> FALSE, requests |-> 0, warned |-> FALSE]

DigitChar(n) == <<"0", "1", "2", "3", "4", "5", "6", "7", "8", "9">>[n + 1]

\* The normalized text of the pages [from, to) of a document, when Vision
\* finds one: "pages f-t .."
RangeText(r) ==
  <<"p", "a", "g", "e", "s", " ", DigitChar(r[1]), "-", DigitChar(r[2]), " ",
    ".", ".">>

\* What extract_text_sync returns for a range that has a text. migration/:
\* the text cleaned by clean_ocr_text. backend/scripts/: the text of the
\* response as it is, text + "\n\n" for the pages of the range (lines
\* 235-238 of that file); it has no clean_ocr_text.
SyncText(variant, r) ==
  IF variant = "migration"
    THEN clean_ocr_text(RangeText(r) \o <<"\n", "\n">>)
    ELSE RangeText(r) \o <<"\n", "\n">>

\* gathered_text as the string it is: text + "\n\n" for every range that
\* gave a text.
RECURSIVE GatheredString(_, _)
GatheredString(variant, ranges) ==
  IF ranges = <<>> THEN <<>>
  ELSE SyncText(variant, Head(ranges)) \o <<"\n", "\n">>
       \o GatheredString(variant, Tail(ranges))

KeepAsGathered(t) == t

\* migration/: return clean_ocr_text(gathered_text) if gathered_text else
\* None
CleanGathered(t) == clean_ocr_text(t)

\* What dynamic_chunk_and_ocr_pdf returns; None also when the document
\* cannot be read or has no page. backend/scripts/:
\* return gathered_text if gathered_text.strip() else None
ChunkResult ==
  LET gathered == GatheredString(ck_variant, gathered_text)
  IN IF ck_pc # "done" \/ gathered_text = <<>> THEN NoneText
     ELSE IF ck_variant = "migration" THEN CleanGathered(gathered)
     ELSE IF strip(gathered) # <<>> THEN gathered ELSE NoneText

\* bool(extracted_text)
Bool(t) == t # NoneText /\ t # <<>>

\* process_file reaches `if mode == "notes_with_ocr"` with a file of some
\* extension and size.
StageInputs ==
  /\ oc_pc = "route"
  /\ ext \in Extensions
  /\ file_size \in FileSizes
  /\ mime_type = <<>>

\* extract_text_sync is called with some MIME type, whoever calls it.
DirectInputs ==
  /\ oc_pc = "sync"
  /\ ext = "none"
  /\ file_size \in FileSizes
  /\ mime_type \in MimeTypes

OcrInputs ==
  /\ StageInputs \/ DirectInputs
  /\ sync_calls = 0
  /\ ocr_requests = 0
  /\ low_confidence = FALSE
  /\ response_text = NoneText
  /\ oc_text = NoneText
  /\ base_metadata = <<>>

\* Lines 738-750: the file is read (which may raise, into process_file's
\* except clause) and the route is taken: the chunker gets the document with
\* the default start_chunk_pages, extract_text_sync gets the MIME type made
\* from the extension.
OcrRoute ==
  /\ oc_pc = "route"
  /\ mode = "notes_with_ocr"
  /\ \E read_fails \in BOOLEAN :
       IF read_fails
         THEN /\ oc_pc' = "failed"
              /\ UNCHANGED <<mime_type, ck_vars>>
       ELSE IF Chunked(ext, file_size)
         THEN /\ oc_pc' = "chunking"
              /\ ck_variant' = "migration"
              /\ ck_pc' = "start"
              /\ total_pages' \in 0..MaxPages
              /\ start_chunk_pages' = DEFAULT_CHUNK_PAGES
              /\ page_size' \in [1..total_pages' -> PageSizes]
              /\ page_idx' = 0
              /\ chunk_pages' = 0
              /\ gathered_text' = <<>>
              /\ plan' = <<>>
              /\ shrinks' = 0
              /\ shrinks_here' = 0
              /\ ocr_raised' = <<>>
              /\ UNCHANGED mime_type
         ELSE /\ oc_pc' = "sync"
              /\ mime_type' = MimeOf(ext)
              /\ UNCHANGED ck_vars
  /\ UNCHANGED <<batch_vars, retry_vars, clean_vars, aux_vars, ext,
                 file_size,
                 sync_calls, ocr_requests, low_confidence, response_text,
                 oc_text, base_metadata>>

\* extract_text_sync(content, mime): one call on the whole payload, which
\* makes one call of the extraction of the MIME type, or none.
OcrSync ==
  /\ oc_pc = "sync"
  /\ \E image \in ImageResponses, pdf \in PdfResponses :
       LET extraction == IF IsImage(mime_type)
                           THEN extract_text_from_image_bytes(image)
                           ELSE extract_text_from_pdf_bytes(pdf)
           r == SyncResult(mime_type, extraction)
       IN /\ oc_text' = r.value
          /\ ocr_requests' = ocr_requests + r.requests
          /\ low_confidence' = r.warned
          /\ response_text' =
               IF IsImage(mime_type) /\ image.kind = "annotation"
                 THEN image.text
               ELSE IF IsPdf(mime_type) /\ pdf.kind = "pages"
                 THEN full_text(pdf.pages)
               ELSE NoneText
          /\ oc_pc' = IF r.raised THEN "failed"
                      ELSE IF ext = "none" THEN "done" ELSE "store"
  /\ sync_calls' = sync_calls + 1
  /\ UNCHANGED <<ck_vars, batch_vars, retry_vars, clean_vars, aux_vars, ext,
                 file_size,
                 mime_type, base_metadata>>

\* dynamic_chunk_and_ocr_pdf returns to process_file.
OcrChunkReturn ==
  /\ oc_pc = "chunking"
  /\ ck_pc \in {"done", "unreadable"}
  /\ oc_text' = ChunkResult
  /\ oc_pc' = "store"
  /\ UNCHANGED <<ck_vars, batch_vars, retry_vars, clean_vars, aux_vars, ext,
                 file_size,
                 mime_type, sync_calls, ocr_requests, low_confidence,
                 response_text, base_metadata>>

\* Lines 753-765: the OCR fields of base_metadata are set and the record is
\* handed to insert_note_record.
OcrStore ==
  /\ oc_pc = "store"
  /\ base_metadata' = [ocr_text |-> oc_text, is_ocr_done |-> Bool(oc_text)]
  /\ oc_pc' = "done"
  /\ UNCHANGED <<ck_vars, batch_vars, retry_vars, clean_vars, aux_vars, ext,
                 file_size,
                 mime_type, sync_calls, ocr_requests, low_confidence,
                 response_text, oc_text>>

\* The iterations of the chunker, while process_file waits for it.
OcrChunking == oc_pc = "chunking" /\ NextChunk

InitOcr ==
  OcrInputs /\ ChunkIdle /\ BatchIdle /\ RetryIdle /\ CleanIdle /\ AuxIdle

NextOcr ==
  \/ OcrRoute
  \/ OcrSync
  \/ OcrChunking
  \/ OcrChunkReturn
  \/ OcrStore

\* The OCR stage of one work item in mode notes_with_ocr, or one call of
\* extract_text_sync.
SpecOcr == InitOcr /\ [][NextOcr]_vars

\* ======================================================================
\* Properties of the OCR stage
\* ======================================================================

\* The stage of a work item (not a direct call of extract_text_sync) has
\* its text: it is about to fill base_metadata, or has done so.
StageHasText == ext # "none" /\ oc_pc \in {"store", "done"}

\* The work item is a PDF larger than the inline limit.
PdfOverLimit == ext = "pdf" /\ file_size > SYNC_LIMIT

ProcessableRanges ==
  SelectSeq(plan, LAMBDA r : r.kind = "processable")

GatheredTexts == [k \in 1..Len(gathered_text) |-> RangeText(gathered_text[k])]

\* The windows the loop would take if it never halved chunk_pages.
InitialWindows ==
  LET w == Max(start_chunk_pages, CHUNK_MIN_PAGES)
  IN (total_pages + w - 1) \div w

\* The document is so large that one of the windows of the initial size must
\* exceed the limit (3 x the limit over two windows of five pages, say), and
\* the window can be halved.
MustShrinkOnce ==
  /\ start_chunk_pages > CHUNK_MIN_PAGES
  /\ ChunkSize(0, total_pages) > SYNC_LIMIT * InitialWindows

\* C24, the shrinking: when the chunker returns for such a document, and no
\* range was dropped on an error, it has halved the window at least once.
C24_ShrinksAtLeastOnce ==
  (Returned /\ MustShrinkOnce /\ ~HasKind("dropped")) => shrinks >= 1

\* C24 as stated: the chunker shrinks at least once for such a document, and
\* the text the chunker of migration/ returns is the normalized texts of the
\* ranges, in page order, with a blank line between one and the next.
C24_TextsSeparatedByBlankLines ==
  /\ C24_ShrinksAtLeastOnce
  /\ (Returned /\ ck_variant = "migration" /\ gathered_text # <<>>) =>
       /\ ChunkResult # NoneText
       /\ strip(ChunkResult) = join(<<"\n", "\n">>, GatheredTexts)

\* What the chunker returns instead. migration/: clean_ocr_text is applied
\* to the whole of gathered_text and leaves a single space where the blank
\* lines were. backend/scripts/: the texts are those of the responses, not
\* normalized, each followed by its own blank lines.
C24_TextsSeparatedBySpaces ==
  (Returned /\ gathered_text # <<>>) =>
    /\ ck_variant = "migration" =>
         ChunkResult = join(<<" ">>, GatheredTexts)
    /\ ck_variant = "backend" =>
         ChunkResult = join(<<"\n", "\n", "\n", "\n">>, GatheredTexts)
                         \o <<"\n", "\n", "\n", "\n">>
    /\ \A k \in 1..(Len(gathered_text) - 1) :
         gathered_text[k][2] <= gathered_text[k + 1][1]

\* The chunker of migration/ has halved its window and returned the text of
\* two ranges.
C24_Witness ==
  /\ Returned
  /\ ck_variant = "migration"
  /\ MustShrinkOnce
  /\ shrinks >= 1
  /\ Len(gathered_text) >= 2

\* ======================================================================
\* Properties of the chunker: a range whose extraction raises
\* ======================================================================

InSeq(x, q) == \E k \in 1..Len(q) : q[k] = x

\* C25: in both variants of the chunker, a range whose extraction raised is
\* a range the loop advanced past (the start page is at or beyond its end)
\* and gave no text to the result; the iteration in which it raised leaves
\* the loop running with the start page at the end of that range; and when
\* the function returns the plan reaches the last page and the texts of the
\* other ranges are returned.
C25_FailedRangeSkippedRestKept ==
  /\ [](\A k \in 1..Len(ocr_raised) :
          LET r == ocr_raised[k]
          IN /\ InSeq(Range(r[1], r[2], "processable"), plan)
             /\ ~InSeq(r, gathered_text)
             /\ page_idx >= r[2])
  /\ [][ocr_raised' # ocr_raised =>
          /\ ck_pc' = "loop"
          /\ page_idx' = Last(ocr_raised')[2]
          /\ page_idx' > page_idx
          /\ gathered_text' = gathered_text]_vars
  /\ [](Returned =>
          /\ Last(plan).to = total_pages
          /\ gathered_text # <<>> => ChunkResult # NoneText
          /\ \A k \in 1..Len(plan) :
               LET r == <<plan[k].from, plan[k].to>>
               IN InSeq(r, gathered_text) =>
                    /\ plan[k].kind = "processable"
                    /\ ~InSeq(r, ocr_raised))

\* The extraction of the first range raised; the chunker went on, and has
\* returned the text of a later range.
C25_Witness ==
  /\ Returned
  /\ total_pages >= 3
  /\ ocr_raised # <<>>
  /\ ocr_raised[1][1] = 0
  /\ gathered_text # <<>>
  /\ gathered_text[1][1] >= ocr_raised[1][2]
  /\ ChunkResult # NoneText

\* ======================================================================
\* Properties of extract_text_sync
\* ======================================================================

\* The MIME types OCR is defined for: image/* and application/pdf.
Supported(m) == m[1] = "image" \/ (m[1] = "application" /\ m[2] = "pdf")

\* extract_text_sync was called with a MIME type directly, and has returned
\* or raised.
DirectCallEnded == ext = "none" /\ oc_pc \in {"done", "failed"}

\* C26: a call of extract_text_sync with a MIME type that is neither image/*
\* nor application/pdf returns None: it does not raise, and no extraction
\* function (no OCR service call) is called; with a supported type exactly
\* one is.
C26_UnsupportedMimeReturnsNone ==
  /\ ext = "none" =>
       /\ oc_pc # "failed"
       /\ ~Supported(mime_type) => ocr_requests = 0
  /\ DirectCallEnded =>
       /\ sync_calls = 1
       /\ ~Supported(mime_type) => oc_text = NoneText /\ ~low_confidence
       /\ Supported(mime_type) => ocr_requests = 1

\* The call with a type that only begins like "image" has returned.
C26_Witness ==
  /\ DirectCallEnded
  /\ mime_type = <<"imagex", "png">>
  /\ oc_text = NoneText

\* ======================================================================
\* Properties of the OCR stage: the confidence
\* ======================================================================

\* The Vision response of the stage's call carried a text whose cleaned form
\* is long enough to be kept.
ResponseHasText ==
  /\ response_text # NoneText
  /\ clean_ocr_text(response_text) # NoneText

\* C27: whatever the confidences of the response's symbols (none above 0,
\* an average under OCR_MIN_CONFIDENCE, at it, above it), a response whose
\* cleaned text has at least OCR_TEXT_MIN_LENGTH characters gives that text
\* as the result of the OCR call, and the record handed to the insert
\* carries it with is_ocr_done true; the warning is all a low confidence
\* produces.
C27_ConfidenceDoesNotGate ==
  (sync_calls = 1 /\ ResponseHasText) =>
    /\ oc_text = clean_ocr_text(response_text)
    /\ Len(oc_text) >= OCR_TEXT_MIN_LENGTH
    /\ oc_pc # "failed"
    /\ (ext # "none" /\ oc_pc = "done") =>
         base_metadata = [ocr_text |-> oc_text, is_ocr_done |-> TRUE]

\* The warning was logged for an image, and its record carries the text.
C27_Witness ==
  /\ oc_pc = "done"
  /\ ext = "png"
  /\ low_confidence
  /\ ResponseHasText
  /\ base_metadata # <<>>
  /\ base_metadata.is_ocr_done
  /\ base_metadata.ocr_text = clean_ocr_text(response_text)

\* ======================================================================
\* Properties of the collection loop: a future that raises
\* ======================================================================

\* process_file did not return for item i: its future holds an exception.
FutureRaised(i) == Finished(i) /\ result[i] = RaisedResult

RaisedFutures == {i \in Files : FutureRaised(i)}

\* C28: the iteration of the collection loop that takes a future whose
\* result() raises counts it in completed and adds exactly one to failed,
\* leaves success, skipped and the failure list alone, and stays in the
\* loop with the other futures still to be yielded; the loop is never left
\* while a future is uncollected, so at the report every item has been
\* counted once, the raised ones in failed.
C28_RaisedFutureCountedFailed ==
  /\ [][(m_pc = "collect" /\ yieldQ # <<>> /\ FutureRaised(Head(yieldQ))
         /\ completed' # completed) =>
          /\ completed' = completed + 1
          /\ failed' = failed + 1
          /\ success' = success
          /\ skipped' = skipped
          /\ failed_files' = failed_files
          /\ counted' = [counted EXCEPT ![Head(yieldQ)] = 1]
          /\ m_pc' = "collect"
          /\ yieldQ' = Tail(yieldQ)]_vars
  /\ []((m_pc = "collect" /\ yieldQ = <<>> /\ completed < NumFiles) =>
          \E i \in Files : ~Finished(i))
  /\ [](m_pc = "done" =>
          /\ completed = NumFiles
          /\ \A i \in Files : counted[i] = 1
          /\ success + skipped + failed = NumFiles
          /\ failed >= Cardinality(RaisedFutures)
          /\ failed = Len(failed_files) + Cardinality(RaisedFutures))

\* The report is reached with a future that raised, counted as the one
\* failure, and an item that succeeded.
C28_Witness ==
  /\ m_pc = "done"
  /\ NumFiles >= 2
  /\ FutureRaised(1)
  /\ failed = 1
  /\ failed_files = <<>>
  /\ \E j \in Files : Succeeded(j) /\ counted[j] = 1

\* ----------------------------------------------------------------------
\* C29: the order of the failure list
\* ----------------------------------------------------------------------

\* The entry the collection loop writes for item i.
FailureEntry(i) == [filename |-> all_files[i].filename,
                    reason |-> result[i].reason]

\* The entries of the failing items in the order in which the items ended.
CompletionOrderEntries ==
  [k \in 1..Len(failure_order) |-> FailureEntry(failure_order[k])]

\* The items of failure_order, each taken once, in some order.
FailureArrangements ==
  { q \in [1..Len(failure_order) -> 1..Len(failure_order)] :
      \A a, b \in 1..Len(failure_order) : q[a] = q[b] => a = b }

\* C29 as stated: when the report is written, the failure list holds the
\* entries of the items that returned a failure, each once, in the order in
\* which those items completed.
C29_FailureListInCompletionOrder ==
  m_pc = "done" => failed_files = CompletionOrderEntries

\* C29, amended: the failure list is in the order in which as_completed
\* yields the failing items.  An item that completes while the main thread
\* waits in as_completed is yielded after everything completed before it, a
\* failure is listed when its item is the one yielded, and at the report each
\* item that returned a failure is listed exactly once; the items that had
\* completed before the main thread began to wait come first, in an order
\* that is not fixed.
C29_FailureListInYieldOrder ==
  /\ [][\A i \in Files :
          (m_pc = "collect" /\ ~Finished(i) /\ Finished(i)') =>
            yieldQ' = Append(yieldQ, i)]_vars
  /\ [][failed_files' # failed_files =>
          /\ m_pc = "collect"
          /\ yieldQ # <<>>
          /\ IsFailure(result[Head(yieldQ)])
          /\ failed_files' = Append(failed_files, FailureEntry(Head(yieldQ)))
          /\ yieldQ' = Tail(yieldQ)]_vars
  /\ [](m_pc = "done" =>
          /\ Len(failed_files) = Len(failure_order)
          /\ \E q \in FailureArrangements :
               \A k \in 1..Len(failed_files) :
                 failed_files[k] = FailureEntry(failure_order[q[k]]))

\* Two items failed, the later submitted one completed first, and the report
\* lists them in that order.
C29_Witness ==
  /\ m_pc = "done"
  /\ Len(failure_order) = 2
  /\ failure_order[1] > failure_order[2]
  /\ FailureEntry(failure_order[1]) # FailureEntry(failure_order[2])
  /\ failed_files = CompletionOrderEntries

\* ======================================================================
\* A KeyboardInterrupt during migrate_with_mode
\* ======================================================================

\* The interrupt is raised in the main thread while it submits or while it
\* collects.  It is no Exception, so the except clause of the collection loop
\* lets it pass; it leaves the with statement, whose exit calls
\* executor.shutdown(wait=True): nothing more is submitted or collected, the
\* futures already submitted are not cancelled, and the main thread waits
\* for the workers.
Interrupt ==
  /\ m_pc \in {"submit", "collect"}
  /\ m_pc' = "shutdown"
  /\ UNCHANGED <<ck_vars, util_vars, store_vars, config_vars, prev_outcome,
                 file_vars,
                 hist_vars, run, submitted, yieldQ, completed, success, skipped,
                 failed, failed_files>>

\* The workers have emptied the queue and ended: shutdown returns, the
\* interrupt reaches __main__, which logs it and exits with status 0 before
\* migrate_with_mode has written its report.
Exit ==
  /\ m_pc = "shutdown"
  /\ \A i \in 1..submitted : Finished(i)
  /\ m_pc' = "exited"
  /\ UNCHANGED <<ck_vars, util_vars, store_vars, config_vars, prev_outcome,
                 file_vars,
                 hist_vars, run, submitted, yieldQ, completed, success, skipped,
                 failed, failed_files>>

NextInterrupt ==
  \/ Next
  \/ Interrupt
  \/ Exit

SpecInterrupt == Init /\ [][NextInterrupt]_vars

\* The workers are threads of the pool and keep running while the main
\* thread waits for them.
SpecInterruptFair == SpecInterrupt /\ WF_vars(NextInterrupt)

\* ----------------------------------------------------------------------
\* C30: what an interrupt stops
\* ----------------------------------------------------------------------

Interrupted == m_pc \in {"shutdown", "exited"}

NotStarted(i) == pc[i] = "queued"

\* C30 as stated: after an interrupt no item that has not started is started
\* (and an item in flight is never put back or dropped: it stays in flight
\* until it is finished).
C30_NothingStartsAfterInterrupt ==
  [][Interrupted =>
       \A i \in Files :
         /\ NotStarted(i) => NotStarted(i)'
         /\ i \in Running => (i \in Running' \/ Finished(i)')]_vars

\* What the code does after an interrupt: nothing more is submitted,
\* collected or reported, an item that was never submitted never starts, and
\* the process exits only when every submitted item is finished, the ones
\* that were still waiting in the pool's queue included.
C30_SubmittedItemsStillRun ==
  /\ [][Interrupted =>
         /\ submitted' = submitted
         /\ completed' = completed
         /\ failed_files' = failed_files
         /\ m_pc' # "done"
         /\ \A i \in Files :
              /\ i > submitted => NotStarted(i)'
              /\ i \in Running => (i \in Running' \/ Finished(i)')
              /\ Finished(i) => Finished(i)' /\ result'[i] = result[i]]_vars
  /\ [](m_pc = "exited" => \A i \in Files : i <= submitted <=> Finished(i))

\* With the workers running: once interrupted, every submitted item reaches
\* its end, whether it was in flight or still queued, and the process exits.
C30_InterruptedBatchDrains ==
  /\ \A i \in 1..MaxFiles :
       (m_pc = "shutdown" /\ i <= submitted) ~> (i \in Files /\ Finished(i))
  /\ (m_pc = "shutdown") ~> (m_pc = "exited")

\* The process has exited after an interrupt that came while two items were
\* in flight and a third, submitted, had not started: all three are finished.
C30_QueuedItemRanAfterInterrupt ==
  /\ m_pc = "exited"
  /\ NumFiles = 3
  /\ submitted = 3
  /\ completed = 0
  /\ \A i \in Files : Finished(i)

\* ======================================================================
\* main and validate_startup
\* ======================================================================

\* The settings validate_startup asks for: five module globals read from
\* the environment when the module is loaded, and the Google credentials
\* variable, looked up in os.environ.
Settings ==
  {"SUPABASE_URL", "SUPABASE_KEY", "AWS_ACCESS_KEY_ID",
   "AWS_SECRET_ACCESS_KEY", "S3_BUCKET_NAME",
   "GOOGLE_APPLICATION_CREDENTIALS"}

\* The order in which validate_startup looks at them; the base path is
\* tested between the bucket name and the Google credentials.
CheckOrder ==
  <<"SUPABASE_URL", "SUPABASE_KEY", "AWS_ACCESS_KEY_ID",
    "AWS_SECRET_ACCESS_KEY", "S3_BUCKET_NAME", "BASE_PATH",
    "GOOGLE_APPLICATION_CREDENTIALS">>

IsMissingButPath(name, env, isdir) ==
  name # "BASE_PATH" /\ name \notin env

IsMissing(name, env, isdir) ==
  IF name = "BASE_PATH" THEN ~isdir ELSE name \notin env

\* The list errors of validate_startup, by the name each message is about.
validate_startup(env, isdir) ==
  SelectSeq(CheckOrder, LAMBDA name : IsMissing(name, env, isdir))

StartupInputs ==
  /\ st_pc = "main"
  /\ env_set \in SUBSET Settings
  /\ base_path_isdir \in BOOLEAN
  /\ errors = <<>>
  /\ exit_code = -1

\* main() up to the end of validate_startup: the list is built, and when it
\* is not empty the messages are logged and sys.exit(1) ends the process;
\* SystemExit is no Exception, so no handler of __main__ catches it.
ValidateStartup ==
  /\ st_pc = "main"
  /\ errors' = validate_startup(env_set, base_path_isdir)
  /\ IF errors' # <<>>
       THEN st_pc' = "exited" /\ exit_code' = 1
       ELSE st_pc' = "validated" /\ exit_code' = exit_code
  /\ UNCHANGED <<ck_vars, batch_vars, retry_vars, clean_vars, ocr_vars,
                 key_vars, backfill_vars, env_set, base_path_isdir>>

\* main() after validate_startup has returned: migrate_with_mode(mode).
MigrateStep ==
  /\ st_pc = "validated"
  /\ Next

\* migrate_with_mode has written its report and returned; main returns and
\* the process ends with status 0, whatever the report counts.
MainReturns ==
  /\ st_pc = "validated"
  /\ m_pc = "done"
  /\ st_pc' = "exited"
  /\ exit_code' = 0
  /\ UNCHANGED <<ck_vars, batch_vars, retry_vars, clean_vars, ocr_vars,
                 key_vars, backfill_vars, env_set, base_path_isdir,
                 errors>>

InitStartup ==
  /\ InitBatch(WorkSets(MaxFiles))
  /\ ChunkIdle /\ RetryIdle /\ CleanIdle /\ OcrIdle /\ KeyIdle
  /\ BackfillIdle
  /\ StartupInputs

NextStartup ==
  \/ ValidateStartup
  \/ MigrateStep
  \/ MainReturns

SpecStartup == InitStartup /\ [][NextStartup]_vars

\* ----------------------------------------------------------------------
\* C31: a failed startup validation
\* ----------------------------------------------------------------------

ValidationFails == env_set # Settings \/ ~base_path_isdir

\* No item of the work set has been touched and nothing was collected.
NoBatchWork ==
  /\ m_pc = "submit"
  /\ submitted = 0
  /\ completed = 0
  /\ \A i \in Files :
       /\ pc[i] = "queued"
       /\ starts[i] = 0
       /\ url_existed[i] = "unchecked"
       /\ upload_runs[i] = 0
       /\ upload_attempt[i] = 0
       /\ ocr_calls[i] = 0
       /\ insert_calls[i] = 0
       /\ ~uploaded[i]

\* C31: when a required setting is missing or the base path is no
\* directory, the process exits with status 1 in the step that validates,
\* with no existence check, upload, OCR call or insert performed before or
\* after, and the stores as they were; a run that does start batch work has
\* passed the validation.
C31_FailedValidationExitsBeforeWork ==
  /\ [](ValidationFails =>
          /\ st_pc \in {"main", "exited"}
          /\ st_pc = "exited" => exit_code = 1 /\ errors # <<>>
          /\ NoBatchWork)
  /\ [][ValidationFails => UNCHANGED <<store_vars, batch_vars>>]_vars
  /\ [](~NoBatchWork => ~ValidationFails /\ errors = <<>>)
  /\ [](exit_code = 0 => ~ValidationFails /\ m_pc = "done")

\* The credentials are all there but the base path is no directory: exit 1.
C31_Witness ==
  /\ st_pc = "exited"
  /\ exit_code = 1
  /\ env_set = Settings
  /\ ~base_path_isdir
  /\ errors = <<"BASE_PATH">>
  /\ NumFiles >= 1
  /\ NoBatchWork

\* ======================================================================
\* collect_files_from_path and build_s3_key
\* ======================================================================

\* Spellings of directory and file names, as sequences of characters where
\* the code looks inside them.
Sem1 == <<"S", "e", "m", "1">>

Yr01 == <<"Y", "r", "0", "1">>

Sem2 == <<"S", "e", "m", "2">>

\* Directories below BASE_PATH, as the path_parts the walk derives from
\* root: too short to be a subject directory, a subject directory, its
\* Notes and Books directories, and directories below Notes.
TreeDirs ==
  { <<"CSE", period>> : period \in {Sem1} }
  \cup { <<"CSE", period, "Maths">> : period \in {Sem1, Yr01, Sem2} }
  \cup { <<"CSE", period, "Maths", kind>> :
           period \in {Sem1, Yr01, Sem2}, kind \in {"Notes", "Books"} }
  \cup { <<"CSE", period, "Maths", "Notes", unit>> :
           period \in {Sem1, Sem2}, unit \in {"Unit1", "Unit2"} }

TreeNames ==
  { [stem |-> 1, ext |-> "pdf"], [stem |-> 2, ext |-> "pdf"],
    [stem |-> 1, ext |-> "txt"] }

TreeFiles ==
  { [path_parts |-> d, filename |-> n] : d \in TreeDirs, n \in TreeNames }

\* VALID_EXTENSIONS (line 64).
VALID_EXTENSIONS == {"png", "jpg", "jpeg", "tiff", "gif", "pdf"}

\* The three tests of collect_files_from_path on one file of the walk.
Collects(f, excl) ==
  /\ Len(f.path_parts) >= 3
  /\ ~(excl /\ Len(f.path_parts) > 3 /\ f.path_parts[4] = "Books")
  /\ f.filename.ext \in VALID_EXTENSIONS

\* Two different files of the tree, in the order in which the walk meets
\* them.
KeyInputs ==
  /\ k_pc = "walk"
  /\ exclude_books \in BOOLEAN
  /\ tree \in { p \in TreeFiles \X TreeFiles : p[1] # p[2] }
  /\ collected = <<>>
  /\ keys = <<>>

\* collect_files_from_path walks the tree; the key of each file it keeps is
\* what process_file derives at its start.
CollectAndKey ==
  /\ k_pc = "walk"
  /\ collected' = SelectSeq(tree, LAMBDA f : Collects(f, exclude_books))
  /\ keys' = [k \in 1..Len(collected') |->
                build_s3_key(collected'[k].path_parts, collected'[k].filename)]
  /\ k_pc' = "done"
  /\ UNCHANGED <<ck_vars, batch_vars, retry_vars, clean_vars, ocr_vars,
                 startup_vars, backfill_vars, exclude_books, tree>>

InitKey ==
  /\ KeyInputs
  /\ ChunkIdle /\ BatchIdle /\ RetryIdle /\ CleanIdle /\ OcrIdle
  /\ StartupIdle /\ BackfillIdle

NextKey == CollectAndKey

SpecKey == InitKey /\ [][NextKey]_vars

\* ----------------------------------------------------------------------
\* C32: the keys of two different files
\* ----------------------------------------------------------------------

BothCollected == k_pc = "done" /\ Len(collected) = 2

\* The resource directory the key names: the fourth directory, or Notes for
\* a file that lies in the subject directory itself.
ResourceDir(f) ==
  IF Len(f.path_parts) > 3 THEN f.path_parts[4] ELSE "Notes"

\* The number a period label holds, as the set of labels of the tree that
\* hold it.
SamePeriodNumber(f, g) ==
  \/ f.path_parts[2] = g.path_parts[2]
  \/ {f.path_parts[2], g.path_parts[2]} = {Sem1, Yr01}

\* C32 as stated: two different files that the traversal collects, in
\* different directories or under different names, get different keys.
C32_DistinctItemsDistinctKeys ==
  BothCollected => keys[1] # keys[2]

\* What build_s3_key does tell apart: two collected files get the same key
\* exactly when they have the same name and lie under the same branch and
\* subject, in periods whose labels hold the same number, in the same
\* resource directory (a file directly in the subject directory counting as
\* in Notes) or anywhere below it.  Files of one directory always differ.
C32_KeysCollideOnlyAcrossDirectories ==
  BothCollected =>
    /\ keys[1] = keys[2] <=>
         /\ collected[1].filename = collected[2].filename
         /\ collected[1].path_parts[1] = collected[2].path_parts[1]
         /\ SamePeriodNumber(collected[1], collected[2])
         /\ collected[1].path_parts[3] = collected[2].path_parts[3]
         /\ ResourceDir(collected[1]) = ResourceDir(collected[2])
    /\ collected[1].path_parts = collected[2].path_parts =>
         keys[1] # keys[2]

\* Two files of the same name in Notes/Unit1 and Notes/Unit2 of one subject
\* are both collected and get one key.
C32_SubdirectoriesCollide ==
  /\ BothCollected
  /\ collected[1].path_parts = <<"CSE", Sem1, "Maths", "Notes", "Unit1">>
  /\ collected[2].path_parts = <<"CSE", Sem1, "Maths", "Notes", "Unit2">>
  /\ collected[1].filename = collected[2].filename
  /\ keys[1] = keys[2]

\* ----------------------------------------------------------------------
\* C33: a dry run
\* ----------------------------------------------------------------------

RecordExists(i) == UrlIn(Table, FileUrl(all_files[i]))

\* Nothing of item i has gone past the existence check.
NothingPerformed(i) ==
  /\ upload_runs[i] = 0
  /\ upload_attempt[i] = 0
  /\ ~uploaded[i]
  /\ ocr_calls[i] = 0
  /\ insert_calls[i] = 0
  /\ pc[i] \notin {"subject_select", "subject_insert", "ocr", "insert"}

DryRunFrame ==
  /\ [][DRY_RUN => UNCHANGED <<notes, books, subjects, bucket>>]_vars
  /\ [](DRY_RUN => \A i \in Files : NothingPerformed(i))

RECURSIVE FloorLog2(_)
FloorLog2(n) == IF n <= 1 THEN 0 ELSE 1 + FloorLog2(n \div 2)

\* The loop is about to build the candidate range at page_idx.
AtCandidate == ck_pc = "loop" /\ page_idx < total_pages

CandidateSize ==
  ChunkSize(page_idx, EndPage(page_idx, chunk_pages, total_pages))

\* The iteration ended in an error of the writer, before any size test.
WriterRaised ==
  \/ ck_pc' = "raised"
  \/ /\ Len(plan') = Len(plan) + 1
     /\ plan'[Len(plan')].kind = "dropped"

\* C34: an iteration that finds the candidate over the limit with a window
\* of more than one page halves the window (floor, at least 1), keeps the
\* start page, adds no range to the plan, sends nothing to OCR and gathers
\* nothing; between two changes of the start page there are at most
\* floor(log2(start_chunk_pages)) such iterations (none for a
\* start_chunk_pages below 2).
C34_ShrinkAndRetry ==
  /\ [][(AtCandidate /\ CandidateSize > SYNC_LIMIT /\ chunk_pages > 1
          /\ ~WriterRaised) =>
          /\ chunk_pages' = Max(1, chunk_pages \div 2)
          /\ page_idx' = page_idx
          /\ ck_pc' = ck_pc
          /\ plan' = plan
          /\ gathered_text' = gathered_text
          /\ ocr_raised' = ocr_raised
          /\ shrinks_here' = shrinks_here + 1]_ck_vars
  /\ [](shrinks_here <= FloorLog2(Max(start_chunk_pages, 1)))
  /\ [][shrinks_here' > shrinks_here =>
          (AtCandidate /\ CandidateSize > SYNC_LIMIT /\ chunk_pages > 1)]_ck_vars

\* A window of four pages has been halved twice at one start page, which is
\* floor(log2(4)) times, and is down to one page.
C34_Witness ==
  /\ ck_pc = "loop"
  /\ start_chunk_pages = 4
  /\ shrinks_here = 2
  /\ chunk_pages = 1
  /\ plan # <<>>

\* ----------------------------------------------------------------------
\* C35: the ramp-up step and the bounds of the window
\* ----------------------------------------------------------------------

\* The iteration advanced past a range of the given kind.
Advanced(kind) ==
  /\ Len(plan') = Len(plan) + 1
  /\ plan'[Len(plan')].kind = kind

\* C35: an iteration that processes a range leaves the window at
\* min(start_chunk_pages, 2 * chunk_pages) when it was below
\* start_chunk_pages and as it was otherwise; an iteration that skips an
\* oversize page leaves the window as it was; and while the loop runs the
\* window is at least 1 and at most max(start_chunk_pages, 1).
C35_RampUpWithinBounds ==
  /\ [][Advanced("processable") =>
          chunk_pages' = IF chunk_pages < start_chunk_pages
                           THEN Min(start_chunk_pages, 2 * chunk_pages)
                           ELSE chunk_pages]_ck_vars
  /\ [][Advanced("skipped") =>
          /\ chunk_pages' = chunk_pages
          /\ chunk_pages = 1]_ck_vars
  /\ [](ck_pc = "loop" =>
          /\ 1 <= chunk_pages
          /\ chunk_pages <= Max(start_chunk_pages, 1))

\* A window of three pages was halved to one, doubled to two after the first
\* range and capped at three, not four, after the second.
C35_Witness ==
  /\ start_chunk_pages = 3
  /\ shrinks = 1
  /\ Len(plan) = 2
  /\ plan[1] = Range(0, 1, "processable")
  /\ plan[2] = Range(1, 3, "processable")
  /\ chunk_pages = 3

\* ======================================================================
\* update_old_notes_with_ocr: the OCR backfill of the notes table
\* ======================================================================

MaxNotes == 2

OldText == <<"o", "l", "d", " ", "t", "e", "x", "t", " ", "1", "2">>

\* A row of the notes table: what its s3_url leads to (no URL at all is ext
\* "none"; else a file of some extension whose download has `size` bytes)
\* and its OCR fields.
NoteRow(e, size, text) ==
  [s3_url |-> [ext |-> e, size |-> size],
   ocr_text |-> text, is_ocr_done |-> text # NoneText]

\* The rows the table can hold before the backfill.
NoteRows ==
  { NoteRow("none", 0, NoneText),
    NoteRow("pdf", SYNC_LIMIT, OldText),
    NoteRow("pdf", SYNC_LIMIT + 1, OldText),
    NoteRow("jpg", SYNC_LIMIT + 1, NoneText) }

NoteIds == DOMAIN note_rows

\* What dynamic_chunk_and_ocr_pdf(content, filename=..., start_chunk_pages=
\* DEFAULT_CHUNK_PAGES) can return: None, or the cleaned text of the page
\* ranges it gathered.
ChunkerResults ==
  { NoneText } \cup
  { CleanGathered(GatheredString("migration", ranges)) :
      ranges \in { << <<0, 1>> >>, << <<0, 2>>, <<2, 3>> >> } }

\* `if extracted_text:` of update_single_note, mutated to always true.
UpdatesNoteAlways(text) == TRUE

\* `if extracted_text:` of update_single_note.
UpdatesNote(text) == Bool(text)

\* update_note_ocr, mutated to leave the flag down.
UpdatedFieldsNotDone(text) == [ocr_text |-> text, is_ocr_done |-> FALSE]

\* The fields update_note_ocr writes.
UpdatedFields(text) == [ocr_text |-> text, is_ocr_done |-> TRUE]

BackfillInputs ==
  /\ bf_pc = "query"
  /\ FORCE_OCR \in BOOLEAN
  /\ note_rows \in UNION { [1..n -> NoteRows] : n \in 0..MaxNotes }
  /\ old_notes = {}
  /\ n_pc = [i \in NoteIds |-> "absent"]
  /\ n_text = [i \in NoteIds |-> NoneText]
  /\ n_success = [i \in NoteIds |-> FALSE]
  /\ collected_notes = {}
  /\ processed = 0
  /\ bf_success = 0
  /\ bf_failed = 0
  /\ rows_before = note_rows
  /\ n_cause = [i \in NoteIds |-> "none"]

\* Lines 874-898 and 951-956: the query (every note when FORCE_OCR, else
\* what the RPC get_notes_to_update_ocr answers, which this code does not
\* decide), the two early returns, and the submission of every note.
QueryNotes ==
  /\ bf_pc = "query"
  /\ \E query_raises \in BOOLEAN, answer \in SUBSET NoteIds :
       /\ FORCE_OCR => answer = NoteIds
       /\ IF query_raises
            THEN /\ bf_pc' = "aborted"
                 /\ UNCHANGED <<old_notes, n_pc>>
          ELSE IF answer = {}
            THEN /\ bf_pc' = "empty"
                 /\ UNCHANGED <<old_notes, n_pc>>
          ELSE /\ bf_pc' = "pool"
               /\ old_notes' = answer
               /\ n_pc' = [i \in NoteIds |->
                             IF i \in answer THEN "queued" ELSE "absent"]
  /\ UNCHANGED <<ck_vars, batch_vars, retry_vars, clean_vars, ocr_vars,
                 startup_vars, key_vars, FORCE_OCR, note_rows, n_text,
                 n_success, collected_notes, processed, bf_success,
                 bf_failed, rows_before, n_cause>>

NoteRunning(i) == n_pc[i] \in {"download", "ocr", "update"}

\* update_single_note returns its result dict.
NoteReturns(i, ok, cause) ==
  /\ n_pc' = [n_pc EXCEPT ![i] = "returned"]
  /\ n_success' = [n_success EXCEPT ![i] = ok]
  /\ n_cause' = [n_cause EXCEPT ![i] = cause]

\* Lines 899-908: a worker of the pool takes the note; a note without
\* s3_url is answered at once with success False.
NoteStart(i) ==
  /\ bf_pc = "pool"
  /\ n_pc[i] = "queued"
  /\ Cardinality({ j \in NoteIds : NoteRunning(j) }) < MAX_WORKERS
  /\ IF note_rows[i].s3_url.ext = "none"
       THEN NoteReturns(i, FALSE, "no_url")
       ELSE /\ n_pc' = [n_pc EXCEPT ![i] = "download"]
            /\ UNCHANGED <<n_success, n_cause>>
  /\ UNCHANGED <<ck_vars, batch_vars, retry_vars, clean_vars, ocr_vars,
                 startup_vars, key_vars, bf_pc, FORCE_OCR, note_rows,
                 old_notes, n_text, collected_notes, processed, bf_success,
                 bf_failed, rows_before>>

\* Lines 910-915: s3_get_bytes_from_url raises once its retries are used up
\* (swallow=False), which the except clause of line 945 answers, or
\* returns the bytes; no bytes is a failure too.
NoteDownload(i) ==
  /\ n_pc[i] = "download"
  /\ \E outcome \in {"content", "empty", "raised"} :
       IF outcome = "content"
         THEN /\ n_pc' = [n_pc EXCEPT ![i] = "ocr"]
              /\ UNCHANGED <<n_success, n_cause>>
         ELSE NoteReturns(i, FALSE, outcome)
  /\ UNCHANGED <<ck_vars, batch_vars, retry_vars, clean_vars, ocr_vars,
                 startup_vars, key_vars, bf_pc, FORCE_OCR, note_rows,
                 old_notes, n_text, collected_notes, processed, bf_success,
                 bf_failed, rows_before>>

\* Lines 917-943: the route by extension and size, the extraction (whose
\* errors come back as None) and the test of the text.
NoteOcr(i) ==
  /\ n_pc[i] = "ocr"
  /\ LET u == note_rows[i].s3_url
         m == MimeOf(u.ext)
         texts ==
           IF Chunked(u.ext, u.size) THEN ChunkerResults
           ELSE IF IsImage(m)
             THEN { SyncResult(m, extract_text_from_image_bytes(r)).value :
                      r \in ImageResponses }
             ELSE { SyncResult(m, extract_text_from_pdf_bytes(r)).value :
                      r \in PdfResponses }
     IN \E text \in texts :
          /\ n_text' = [n_text EXCEPT ![i] = text]
          /\ IF UpdatesNote(text)
               THEN /\ n_pc' = [n_pc EXCEPT ![i] = "update"]
                    /\ UNCHANGED <<n_success, n_cause>>
               ELSE NoteReturns(i, FALSE, "no_text")
  /\ UNCHANGED <<ck_vars, batch_vars, retry_vars, clean_vars, ocr_vars,
                 startup_vars, key_vars, bf_pc, FORCE_OCR, note_rows,
                 old_notes, collected_notes, processed, bf_success,
                 bf_failed, rows_before>>

\* Lines 630-642 and 939-940: update_note_ocr. A dry run writes nothing and
\* returns; else the row is updated, or the store raises, which the except
\* clause of line 945 answers with success False.
NoteUpdate(i) ==
  /\ n_pc[i] = "update"
  /\ IF DRY_RUN
       THEN /\ NoteReturns(i, TRUE, "dry_run")
            /\ UNCHANGED note_rows
       ELSE \E update_raises \in BOOLEAN :
              IF update_raises
                THEN /\ NoteReturns(i, FALSE, "update_raised")
                     /\ UNCHANGED note_rows
                ELSE /\ note_rows' =
                          [note_rows EXCEPT ![i] =
                             [s3_url |-> @.s3_url] @@ UpdatedFields(n_text[i])]
                     /\ NoteReturns(i, TRUE, "updated")
  /\ UNCHANGED <<ck_vars, batch_vars, retry_vars, clean_vars, ocr_vars,
                 startup_vars, key_vars, bf_pc, FORCE_OCR, old_notes, n_text,
                 collected_notes, processed, bf_success, bf_failed, rows_before>>

\* Lines 958-979: as_completed yields a finished future; it is counted as a
\* success or a failure. After the last one the pool is left and the totals
\* are logged.
CollectNote(i) ==
  /\ bf_pc = "pool"
  /\ n_pc[i] = "returned"
  /\ i \notin collected_notes
  /\ collected_notes' = collected_notes \cup {i}
  /\ processed' = processed + 1
  /\ IF n_success[i]
       THEN /\ bf_success' = bf_success + 1
            /\ UNCHANGED bf_failed
       ELSE /\ bf_failed' = bf_failed + 1
            /\ UNCHANGED bf_success
  /\ bf_pc' = IF collected_notes' = old_notes THEN "done" ELSE "pool"
  /\ UNCHANGED <<ck_vars, batch_vars, retry_vars, clean_vars, ocr_vars,
                 startup_vars, key_vars, FORCE_OCR, note_rows, old_notes,
                 n_pc, n_text, n_success, rows_before, n_cause>>

InitBackfill ==
  /\ BackfillInputs
  /\ mode = "notes_with_ocr"
  /\ DRY_RUN \in BOOLEAN
  /\ BatchQuiet
  /\ ChunkIdle /\ RetryIdle /\ CleanIdle /\ OcrIdle
  /\ StartupIdle /\ KeyIdle

NextBackfill ==
  \/ QueryNotes
  \/ \E i \in NoteIds : NoteStart(i)
  \/ \E i \in NoteIds : NoteDownload(i)
  \/ \E i \in NoteIds : NoteOcr(i)
  \/ \E i \in NoteIds : NoteUpdate(i)
  \/ \E i \in NoteIds : CollectNote(i)

\* One run of update_old_notes_with_ocr over a table of at most MaxNotes
\* notes.
SpecBackfill == InitBackfill /\ [][NextBackfill]_vars

\* ======================================================================
\* The OCR fields of the note records the program writes
\* ======================================================================

\* Lines 755-765, mode notes_no_ocr: no file is read and no OCR is asked
\* for; the record goes to insert_note_record with ocr_text None.
StageNoOcr ==
  /\ oc_pc = "route"
  /\ mode = "notes_no_ocr"
  /\ base_metadata' = [ocr_text |-> NoneText, is_ocr_done |-> FALSE]
  /\ oc_pc' = "done"
  /\ UNCHANGED <<ck_vars, batch_vars, retry_vars, clean_vars, aux_vars, ext,
                 file_size, mime_type, sync_calls, ocr_requests,
                 low_confidence, response_text, oc_text>>

\* process_file at line 736 with one note file, in either notes mode.
InitStage ==
  /\ StageInputs /\ OcrInputs
  /\ mode \in {"notes_with_ocr", "notes_no_ocr"}
  /\ DRY_RUN = FALSE
  /\ BatchQuiet
  /\ ChunkIdle /\ RetryIdle /\ CleanIdle /\ AuxIdle

InitNoteRecords == InitStage \/ InitBackfill

NextNoteRecords ==
  \/ NextOcr
  \/ StageNoOcr
  \/ NextBackfill

\* Everything that writes the OCR fields of a note record: the OCR stage of
\* process_file in both notes modes, and the backfill.
SpecNoteRecords == InitNoteRecords /\ [][NextNoteRecords]_vars

\* ----------------------------------------------------------------------
\* C36: is_ocr_done and ocr_text of a written record
\* ----------------------------------------------------------------------

OcrFieldsAgree(r) ==
  r.is_ocr_done <=>
    (r.ocr_text # NoneText /\ Len(r.ocr_text) >= OCR_TEXT_MIN_LENGTH)

\* The record process_file hands to insert_note_record.
InsertedRecordAgrees ==
  base_metadata # <<>> =>
    /\ OcrFieldsAgree(base_metadata)
    /\ mode = "notes_no_ocr" =>
         (base_metadata.ocr_text = NoneText /\ ~base_metadata.is_ocr_done)

\* A row update_note_ocr has changed.
ChangedRowAgrees ==
  \A i \in NoteIds :
    note_rows'[i] # note_rows[i] => OcrFieldsAgree(note_rows'[i])

\* C36: every note record inserted by process_file or changed by
\* update_note_ocr has is_ocr_done true exactly when ocr_text is a string
\* (not None) of at least OCR_TEXT_MIN_LENGTH characters; in mode
\* notes_no_ocr the record has ocr_text None and is_ocr_done false.
C36_OcrDoneIffLongText ==
  /\ [](InsertedRecordAgrees)
  /\ [][ChangedRowAgrees]_vars

InsertedWithText ==
  /\ base_metadata # <<>>
  /\ mode = "notes_with_ocr"
  /\ base_metadata.is_ocr_done

InsertedWithoutOcr ==
  /\ base_metadata # <<>>
  /\ mode = "notes_no_ocr"

RowRewritten ==
  \E i \in NoteIds :
       /\ n_pc[i] = "returned"
       /\ n_success[i]
       /\ note_rows[i].ocr_text \notin {NoneText, OldText}
       /\ note_rows[i].is_ocr_done

\* A record with a text was inserted, another in no-OCR mode, or a row was
\* rewritten by the backfill.
C36_Witness == InsertedWithText \/ InsertedWithoutOcr \/ RowRewritten

\* ----------------------------------------------------------------------
\* C39: what the backfill changes and what it counts
\* ----------------------------------------------------------------------

\* The download failed or gave no bytes, or the OCR gave no text (its errors
\* come back as None).
NoTextObtained(i) == n_cause[i] \in {"raised", "empty", "no_text"}

OcrFieldsUntouched(i) ==
  /\ note_rows[i].ocr_text = rows_before[i].ocr_text
  /\ note_rows[i].is_ocr_done = rows_before[i].is_ocr_done

FirstSuccessAt(k) ==
  /\ k \in 1..(rl_max_retries + 1)
  /\ rl_outcomes[k] = "ok"
  /\ \A j \in 1..(k - 1) : Matches(rl_outcomes[j])

\* C37: if func first succeeds at its k-th invocation, k <= max_retries + 1,
\* and every earlier error is one retry_loop catches, retry_loop ends by
\* returning, after exactly k invocations and k - 1 sleeps; func is never
\* invoked after an invocation that succeeded, and no sleep follows the
\* last failed invocation.
C37_InvocationsAndSleeps ==
  /\ \A k \in 1..(rl_max_retries + 1) :
       FirstSuccessAt(k) =>
         /\ calls <= k
         /\ RetryEnded => (rl_pc = "returned" /\ calls = k /\ sleeps = k - 1)
  /\ \A j \in 1..(calls - 1) : rl_outcomes[j] # "ok"
  /\ rl_pc = "returned" => rl_outcomes[calls] = "ok"
  /\ rl_pc \in {"raised", "None"} =>
       (rl_outcomes[calls] # "ok" /\ sleeps = calls - 1)

\* Success at the last invocation the retries allow, the third or later.
C37_Witness ==
  /\ rl_pc = "returned"
  /\ FirstSuccessAt(calls)
  /\ calls = rl_max_retries + 1
  /\ calls >= 3
  /\ sleeps = calls - 1

\* ----------------------------------------------------------------------
\* C38: an existence query that raises
\* ----------------------------------------------------------------------

\* The existence query of item i raised although the store holds a row with
\* its URL.
QueryMissed(i) == url_existed[i] = "missed"

\* The existence check of item i, answered False, hands over to the upload:
\* nothing is returned.
CheckHandsOver ==
  \A i \in Files :
    (pc[i] = "exists" /\ url_existed'[i] \in {"absent", "missed"}) =>
      /\ pc'[i] = "upload"
      /\ result'[i] = result[i]

\* What became of an item whose query raised: it is past the check, it was
\* not skipped as existing, s3_upload_file was called for it and, once the
\* object was stored, so was the insert.
MissedItemGoesOn ==
  \A i \in Files :
    QueryMissed(i) =>
      /\ pc[i] \notin {"queued", "exists"}
      /\ Finished(i) =>
           /\ result[i].reason # "already_exists"
           /\ IF DRY_RUN
                THEN result[i] = [success |-> TRUE, reason |-> "dry_run"]
                ELSE /\ upload_runs[i] = 1
                     /\ uploaded[i] => insert_calls[i] = 1

============================================================================
